---- MODULE Spec2Model ----
(***************************************************************************)
(* Model of the relevance scoring and ranking engine of math_search        *)
(* (src/math_search/relevance_calculation/relevance_calculator.py) and of  *)
(* the candidate record it works on (src/math_search/models/               *)
(* search_result.py).                                                      *)
(*                                                                         *)
(* Numbers.  The engine computes with Python floats (IEEE-754 binary64,    *)
(* round to nearest, ties to even).  Rounding is observable (two products  *)
(* of the same factors in a different order can differ in the last bit),   *)
(* so the model computes with the same numbers: a float is a record        *)
(*     [m |-> <<l0, l1, l2, l3>>, x |-> e]                                 *)
(* of value (l0 + l1*2^14 + l2*2^28 + l3*2^42) * 2^e, with a 53-bit        *)
(* mantissa (2^10 <= l3 < 2^11), and zero is [m |-> <<0,0,0,0>>, x |-> 0]. *)
(* Every value the engine computes is finite, non-negative and normal, so  *)
(* signs, infinities, NaN and subnormals are not represented.              *)
(*                                                                         *)
(* Text.  A text is a TLA+ string over ASCII; SubSeq(s, i, i) is its i-th  *)
(* character.                                                              *)
(***************************************************************************)
EXTENDS Integers, Sequences, FiniteSets, TLC

(***************************************************************************)
(* Natural numbers of arbitrary size: little-endian sequences of 14-bit    *)
(* limbs (Python ints and the exact intermediate results of float          *)
(* operations).                                                            *)
(***************************************************************************)
Base == 16384

LimbBits == 14

Pow2Table == <<1, 2, 4, 8, 16, 32, 64, 128, 256, 512, 1024, 2048, 4096, 8192, 16384>>

Pow2(k) == Pow2Table[k + 1]

\* n zero limbs
Zeros(n) == IF n <= 0 THEN <<>> ELSE <<>> \o [i \in 1..n |-> 0]

\* limb i of a (1 = least significant), 0 beyond its length
BLimb(a, i) == IF i >= 1 /\ i <= Len(a) THEN a[i] ELSE 0

\* the number of limbs of a up to its top non-zero limb
BTop(a) ==
    CHOOSE n \in 0..Len(a) :
        (n = 0 \/ a[n] # 0) /\ \A j \in (n + 1)..Len(a) : a[j] = 0

\* a without leading zero limbs
BTrim(a) == SubSeq(a, 1, BTop(a))

\* TRUE iff the addition of columns s (each at most 2 * Base - 2) carries
\* into limb i: some lower column overflows by itself and every column
\* between it and i is Base - 1
Carry(s, i) ==
    \E j \in 1..(i - 1) : s[j] >= Base /\ \A m \in (j + 1)..(i - 1) : s[m] = Base - 1

\* the number whose limb columns are s (each at most 2 * Base - 2)
BNormal(s) ==
    BTrim(<<>> \o [i \in 1..(Len(s) + 1) |->
                      (BLimb(s, i) + (IF Carry(s, i) THEN 1 ELSE 0)) % Base])

\* the longer of two lengths
MaxLen2(a, b) == IF Len(a) >= Len(b) THEN Len(a) ELSE Len(b)

BAdd(a, b) == BNormal(<<>> \o [i \in 1..MaxLen2(a, b) |-> BLimb(a, i) + BLimb(b, i)])

\* TRUE iff the subtraction of columns d (limb differences) borrows from limb
\* i: some lower column is negative and every column between it and i is 0
Borrow(d, i) ==
    \E j \in 1..(i - 1) : d[j] < 0 /\ \A m \in (j + 1)..(i - 1) : d[m] = 0

BSubColumns(d) ==
    BTrim(<<>> \o [i \in 1..Len(d) |->
                      (d[i] - (IF Borrow(d, i) THEN 1 ELSE 0) + Base) % Base])

\* a - b for a >= b
BSub(a, b) == BSubColumns(<<>> \o [i \in 1..Len(a) |-> a[i] - BLimb(b, i)])

\* a * k for one limb k: the low parts of the limb products plus their high
\* parts one limb up
BMulSmall(a, k) ==
    BNormal(<<>> \o [i \in 1..(Len(a) + 1) |->
                        ((BLimb(a, i) * k) % Base) + ((BLimb(a, i - 1) * k) \div Base)])

\* the set of the one product of a and the k top limbs of b: the product with
\* the limbs above, one limb up, plus the product with the next limb.  (A
\* step is the image of the set of the step before, which is therefore
\* computed first, as in a loop.)
RECURSIVE BMulFold(_, _, _)
BMulFold(a, b, k) ==
    IF k = 0 THEN {<<>>}
    ELSE {BAdd(BMulSmall(a, b[Len(b) - k + 1]), <<0>> \o p) : p \in BMulFold(a, b, k - 1)}

BMul(a, b) == CHOOSE p \in BMulFold(a, b, Len(b)) : TRUE

\* the top limb in which ta and tb (of the same length) differ, 0 if none
BDiffTop(ta, tb) ==
    CHOOSE n \in 0..Len(ta) :
        (n = 0 \/ ta[n] # tb[n]) /\ \A j \in (n + 1)..Len(ta) : ta[j] = tb[j]

BCmpAt(ta, tb, n) == IF n = 0 THEN 0 ELSE IF ta[n] < tb[n] THEN -1 ELSE 1

\* BCmp for numbers without leading zero limbs
BCmpTrimmed(ta, tb) ==
    IF Len(ta) < Len(tb) THEN -1
    ELSE IF Len(ta) > Len(tb) THEN 1
    ELSE BCmpAt(ta, tb, BDiffTop(ta, tb))

\* -1, 0 or 1 as a < b, a = b, a > b
BCmp(a, b) == BCmpTrimmed(BTrim(a), BTrim(b))

\* a * 2^n
BShl(a, n) == BTrim(Zeros(n \div LimbBits) \o BMulSmall(a, Pow2(n % LimbBits)))

\* floor(a / 2^r) for r < 14
BShrBits(a, r) ==
    <<>> \o [i \in 1..Len(a) |->
                (a[i] \div Pow2(r)) + ((BLimb(a, i + 1) % Pow2(r)) * Pow2(LimbBits - r))]

\* floor(a / 2^n)
BShr(a, n) ==
    IF n \div LimbBits >= Len(a) THEN <<>>
    ELSE BTrim(BShrBits(SubSeq(a, (n \div LimbBits) + 1, Len(a)), n % LimbBits))

\* the number of bits of one limb k
BitLenSmall(k) == Cardinality({l \in 1..LimbBits : Pow2Table[l] <= k})

BBitLenTrimmed(t) ==
    IF t = <<>> THEN 0 ELSE (Len(t) - 1) * LimbBits + BitLenSmall(t[Len(t)])

\* the number of bits of a
BBitLen(a) == BBitLenTrimmed(BTrim(a))

\* bit i (0 = least significant) of a
BBit(a, i) == (BLimb(a, (i \div LimbBits) + 1) \div Pow2(i % LimbBits)) % 2

\* TRUE iff the n low bits of a are all zero
BLowZero(a, n) ==
    /\ \A i \in 1..(n \div LimbBits) : BLimb(a, i) = 0
    /\ (BLimb(a, (n \div LimbBits) + 1) % Pow2(n % LimbBits)) = 0

\* the limbs of a Python int 0 <= n < 2^31
BFromInt(n) == BTrim(<<n % Base, (n \div Base) % Base, n \div (Base * Base)>>)

\* Knuth's estimate of a quotient limb from the two top limbs of cur: for a
\* divisor b whose top limb is at least Base / 2 and cur < b * Base it is the
\* limb or at most 2 more
BDigitEstimate(cur, b) ==
    IF (BLimb(cur, Len(b) + 1) * Base + BLimb(cur, Len(b))) \div b[Len(b)] >= Base
    THEN Base - 1
    ELSE (BLimb(cur, Len(b) + 1) * Base + BLimb(cur, Len(b))) \div b[Len(b)]

\* the largest c among e, e - 1, e - 2 with b * c <= cur
BDigitFrom(cur, b, e) ==
    IF BCmp(BMulSmall(b, e), cur) <= 0 THEN e
    ELSE IF BCmp(BMulSmall(b, e - 1), cur) <= 0 THEN e - 1
    ELSE e - 2

\* one limb of a quotient: floor(cur / b)
BDigit(cur, b) == BDigitFrom(cur, b, BDigitEstimate(cur, b))

\* the largest r with r * r <= t, for t < Base * Base
SqrtSmall(t) == CHOOSE r \in 0..(Base - 1) : r * r <= t /\ (r + 1) * (r + 1) > t

\* one step of schoolbook long division: the next limb of the dividend has
\* joined the remainder (cur), the quotient gets the limb c = floor(cur / b),
\* and cur - b * c is the new remainder
BDivStepDigit(q, cur, b, c) == <<(<<c>> \o q), BSub(cur, BMulSmall(b, c))>>

BDivStepCur(q, cur, b) == BDivStepDigit(q, cur, b, BDigit(cur, b))

BDivStep(prev, x, b) == BDivStepCur(prev[1], BTrim(<<x>> \o prev[2]), b)

\* the set of the one pair <<quotient, remainder>> after k quotient limbs.
\* The Len(b) - 1 top limbs of a are less than b: they are the first
\* remainder, and step k takes the next limb of a below them.  (As in BMulFold, a
\* step is the image of the set of the step before.)
RECURSIVE BDivFold(_, _, _)
BDivFold(a, b, k) ==
    IF k = 0 THEN {<<<<>>, SubSeq(a, Len(a) - Len(b) + 2, Len(a))>>}
    ELSE {BDivStep(prev, a[Len(a) - Len(b) + 2 - k], b) : prev \in BDivFold(a, b, k - 1)}

\* the quotient and the remainder of operands that were shifted left by s bits
BDivUnshift(qr, s) == <<BTrim(qr[1]), BShr(qr[2], s)>>

BDivShifted(sa, sb, s) ==
    IF Len(sa) < Len(sb) THEN {<<<<>>, BShr(sa, s)>>}
    ELSE {BDivUnshift(qr, s) : qr \in BDivFold(sa, sb, Len(sa) - Len(sb) + 1)}

BDivShift(a, tb, s) == BDivShifted(BShl(a, s), BShl(tb, s), s)

\* the set of the one pair <<floor(a / b), a mod b>> for b > 0: both operands
\* are shifted to make the top limb of the divisor at least Base / 2
BDivModSet(a, b) == BDivShift(a, BTrim(b), LimbBits - BitLenSmall(BLimb(b, BTop(b))))

BDivMod(a, b) == CHOOSE qr \in BDivModSet(a, b) : TRUE

\* floor(sqrt(a)) by Newton's iteration from an x >= sqrt(a): the next iterate
\* is y = floor((x + floor(a / x)) / 2), and x is the root once y >= x
RECURSIVE BSqrtNewton(_, _)
BSqrtNewton(a, x) ==
    CHOOSE r \in {IF BCmp(y, x) >= 0 THEN x ELSE BSqrtNewton(a, y) :
                  y \in {BShr(BAdd(x, qr[1]), 1) : qr \in BDivModSet(a, x)}} : TRUE

\* a first iterate x >= sqrt(ta): the root of the top limbs of ta (two when
\* the number of limbs is even, one when it is odd) plus one, followed by
\* half as many zero limbs as the limbs that were left out
BSqrtStart(ta, n) ==
    IF n % 2 = 0
    THEN Zeros((n - 2) \div 2) \o BFromInt(SqrtSmall(ta[n] * Base + ta[n - 1]) + 1)
    ELSE Zeros((n - 1) \div 2) \o BFromInt(SqrtSmall(ta[n]) + 1)

BSqrtTrimmed(ta) == IF ta = <<>> THEN <<>> ELSE BSqrtNewton(ta, BSqrtStart(ta, Len(ta)))

BSqrt(a) == BSqrtTrimmed(BTrim(a))

(***************************************************************************)
(* binary64 arithmetic on non-negative values.                             *)
(***************************************************************************)
MantBits == 53

FZero == [m |-> <<0, 0, 0, 0>>, x |-> 0]

IsZero(a) == a.m = <<0, 0, 0, 0>>

Pad4(a) == a \o Zeros(4 - Len(a))

\* the float q1 * 2^x for a rounded mantissa q1 of 53 bits, or of 54 bits
\* when rounding up carried (q1 = 2^53)
FNormal(q1, x) ==
    IF BBitLen(q1) > MantBits
    THEN [m |-> Pad4(BShr(q1, 1)), x |-> x + 1]
    ELSE [m |-> Pad4(q1), x |-> x]

\* round to nearest, ties to even: M has s bits too many and q = floor(M / 2^s)
FRoundOff(M, x, s, q) ==
    FNormal(IF BBit(M, s - 1) = 1 /\ (~BLowZero(M, s - 1) \/ BBit(q, 0) = 1)
            THEN BAdd(q, <<1>>)
            ELSE q,
            x + s)

\* FRound for M of L bits
FRoundLen(M, x, L) ==
    IF L = 0 THEN FZero
    ELSE IF L <= MantBits
    THEN [m |-> Pad4(BShl(M, MantBits - L)), x |-> x - (MantBits - L)]
    ELSE FRoundOff(M, x, L - MantBits, BShr(M, L - MantBits))

\* the float nearest to M * 2^x (ties to even) for a natural number M
FRound(M, x) == FRoundLen(M, x, BBitLen(M))

\* float(n) for a Python int n >= 0
FromInt(n) == FRound(BFromInt(n), 0)

FMul(a, b) ==
    IF IsZero(a) \/ IsZero(b) THEN FZero
    ELSE FRound(BMul(a.m, b.m), a.x + b.x)

\* a + b with both brought to the exponent x
FAddAt(a, b, x) == FRound(BAdd(BShl(a.m, a.x - x), BShl(b.m, b.x - x)), x)

FAdd(a, b) ==
    IF IsZero(a) THEN b
    ELSE IF IsZero(b) THEN a
    ELSE FAddAt(a, b, IF a.x < b.x THEN a.x ELSE b.x)

\* -1, 0 or 1 as a < b, a = b, a > b
FCmp(a, b) ==
    IF IsZero(a) THEN (IF IsZero(b) THEN 0 ELSE -1)
    ELSE IF IsZero(b) THEN 1
    ELSE IF a.x < b.x THEN -1
    ELSE IF a.x > b.x THEN 1
    ELSE BCmp(a.m, b.m)

FLe(a, b) == FCmp(a, b) <= 0

FLt(a, b) == FCmp(a, b) < 0

\* a - b for a >= b (the engine never subtracts a larger number)
FSubAt(a, b, x) == FRound(BSub(BShl(a.m, a.x - x), BShl(b.m, b.x - x)), x)

FSub(a, b) ==
    IF IsZero(b) THEN a
    ELSE IF FCmp(a, b) <= 0 THEN FZero
    ELSE FSubAt(a, b, IF a.x < b.x THEN a.x ELSE b.x)

\* the scaling of a dividend or of the operand of a root: the integer
\* results have two bits or more beyond the mantissa, and a sticky bit
ExtraBits == 56

\* the float nearest to (2 * q + sticky) * 2^x, where the sticky bit says that
\* the remainder rem of the integer operation is not zero
FRoundSticky(q, rem, x) ==
    FRound(BAdd(BAdd(q, q), IF BTrim(rem) = <<>> THEN <<>> ELSE <<1>>), x)

FDivPair(qr, x) == FRoundSticky(qr[1], qr[2], x)

\* a / b for b > 0
FDiv(a, b) ==
    IF IsZero(a) THEN FZero
    ELSE CHOOSE f \in {FDivPair(qr, a.x - b.x - ExtraBits - 1) :
                       qr \in BDivModSet(BShl(a.m, ExtraBits), b.m)} : TRUE

\* math.sqrt(a)
\* the rounded root of M * 2^x from r = floor(sqrt(M))
FSqrtRoot(M, r, x) == FRoundSticky(r, BSub(M, BMul(r, r)), x)

FSqrtOf(M, x) == CHOOSE f \in {FSqrtRoot(M, r, x) : r \in {BSqrt(M)}} : TRUE

\* sqrt(a) with the mantissa shifted by k bits, k chosen to make a.x - k even
FSqrtShift(a, k) == FSqrtOf(BShl(a.m, k), ((a.x - k) \div 2) - 1)

FSqrt(a) ==
    IF IsZero(a) THEN FZero
    ELSE FSqrtShift(a, IF (a.x - ExtraBits) % 2 = 0 THEN ExtraBits ELSE ExtraBits + 1)

\* the largest float <= M * 2^x and the smallest float >= M * 2^x
FRoundDownLen(M, x, L) ==
    IF L <= MantBits THEN FRound(M, x)
    ELSE [m |-> Pad4(BShr(M, L - MantBits)), x |-> x + (L - MantBits)]

FRoundDown(M, x) == FRoundDownLen(M, x, BBitLen(M))

FRoundUpLen(M, x, L) ==
    IF L <= MantBits \/ BLowZero(M, L - MantBits) THEN FRound(M, x)
    ELSE FRound(BAdd(BShr(M, L - MantBits), <<1>>), x + (L - MantBits))

FRoundUp(M, x) == FRoundUpLen(M, x, BBitLen(M))

\* v ** 2 is libm's pow(v, 2.0), which is accurate to less than one unit in
\* the last place but not always correctly rounded: either of the two floats
\* that enclose the exact square
FEnclose(M, x) == {FRoundDown(M, x), FRoundUp(M, x)}

FPow2(v) == IF IsZero(v) THEN {FZero} ELSE FEnclose(BMul(v.m, v.m), v.x + v.x)

\* math.log(2.0) and math.log(1.0), the only values math.log is applied to
Ln2 == [m |-> <<14831, 15336, 9263, 1419>>, x |-> -53]

Ln1 == FZero

\* Python's min(a, b) and max(a, b): the first argument unless the second is
\* strictly smaller (larger)
FMin(a, b) == IF FLt(b, a) THEN b ELSE a

FMax(a, b) == IF FLt(a, b) THEN b ELSE a

\* the float literals of the source: the binary64 value nearest to the decimal
\* (float(n) / float(d) for the literal n/d), as mantissa limbs and exponent
F0_05 == [m |-> <<6554, 9830, 6553, 1638>>, x |-> -57]

F0_1 == [m |-> <<6554, 9830, 6553, 1638>>, x |-> -56]

F0_15 == [m |-> <<13107, 3276, 13107, 1228>>, x |-> -55]

F0_2 == [m |-> <<6554, 9830, 6553, 1638>>, x |-> -55]

F0_25 == [m |-> <<0, 0, 0, 1024>>, x |-> -54]

F0_3 == [m |-> <<13107, 3276, 13107, 1228>>, x |-> -54]

F0_4 == [m |-> <<6554, 9830, 6553, 1638>>, x |-> -54]

F0_8 == [m |-> <<6554, 9830, 6553, 1638>>, x |-> -53]

F0_9 == [m |-> <<3277, 13107, 3276, 1843>>, x |-> -53]

F0_95 == [m |-> <<9830, 6553, 9830, 1945>>, x |-> -53]

F1_0 == [m |-> <<0, 0, 0, 1024>>, x |-> -52]

F1_1 == [m |-> <<6554, 9830, 6553, 1126>>, x |-> -52]

F1_15 == [m |-> <<9830, 6553, 9830, 1177>>, x |-> -52]

F1_2 == [m |-> <<13107, 3276, 13107, 1228>>, x |-> -52]

F1_25 == [m |-> <<0, 0, 0, 1280>>, x |-> -52]

F1_3 == [m |-> <<3277, 13107, 3276, 1331>>, x |-> -52]

F1_4 == [m |-> <<9830, 6553, 9830, 1433>>, x |-> -52]

F1_5 == [m |-> <<0, 0, 0, 1536>>, x |-> -52]

F1_6 == [m |-> <<6554, 9830, 6553, 1638>>, x |-> -52]

F1_7 == [m |-> <<13107, 3276, 13107, 1740>>, x |-> -52]

F1_8 == [m |-> <<3277, 13107, 3276, 1843>>, x |-> -52]

F1_9 == [m |-> <<9830, 6553, 9830, 1945>>, x |-> -52]

F2_0 == [m |-> <<0, 0, 0, 1024>>, x |-> -51]

F2_1 == [m |-> <<3277, 13107, 3276, 1075>>, x |-> -51]

F2_2 == [m |-> <<6554, 9830, 6553, 1126>>, x |-> -51]

F2_3 == [m |-> <<9830, 6553, 9830, 1177>>, x |-> -51]

F2_4 == [m |-> <<13107, 3276, 13107, 1228>>, x |-> -51]

F2_5 == [m |-> <<0, 0, 0, 1280>>, x |-> -51]

F2_6 == [m |-> <<3277, 13107, 3276, 1331>>, x |-> -51]

F2_7 == [m |-> <<6554, 9830, 6553, 1382>>, x |-> -51]

F2_8 == [m |-> <<9830, 6553, 9830, 1433>>, x |-> -51]

(***************************************************************************)
(* Text: the str operations the engine uses.                               *)
(***************************************************************************)
CharAt(s, i) == SubSeq(s, i, i)

LowerOf ==
    "A" :> "a" @@ "B" :> "b" @@ "C" :> "c" @@ "D" :> "d" @@ "E" :> "e" @@ "F" :> "f" @@
    "G" :> "g" @@ "H" :> "h" @@ "I" :> "i" @@ "J" :> "j" @@ "K" :> "k" @@ "L" :> "l" @@
    "M" :> "m" @@ "N" :> "n" @@ "O" :> "o" @@ "P" :> "p" @@ "Q" :> "q" @@ "R" :> "r" @@
    "S" :> "s" @@ "T" :> "t" @@ "U" :> "u" @@ "V" :> "v" @@ "W" :> "w" @@ "X" :> "x" @@
    "Y" :> "y" @@ "Z" :> "z"

\* str.lower(), by halves
RECURSIVE Lower(_)
Lower(s) ==
    IF Len(s) = 0 THEN ""
    ELSE IF Len(s) = 1 THEN (IF s \in DOMAIN LowerOf THEN LowerOf[s] ELSE s)
    ELSE LET h == Len(s) \div 2
         IN  Lower(SubSeq(s, 1, h)) \o Lower(SubSeq(s, h + 1, Len(s)))

\* Python's `t in s` for strings
Contains(s, t) ==
    \E i \in 1..(Len(s) - Len(t) + 1) : SubSeq(s, i, i + Len(t) - 1) = t

\* the first index >= i at which t occurs in s, 0 if there is none
FindFrom(s, t, i) ==
    LET hits == {j \in i..(Len(s) - Len(t) + 1) : SubSeq(s, j, j + Len(t) - 1) = t}
    IN  IF hits = {} THEN 0 ELSE CHOOSE j \in hits : \A k \in hits : j <= k

\* str.count(t): the non-overlapping occurrences of t, scanning from the left
RECURSIVE CountFrom(_, _, _)
CountFrom(s, t, i) ==
    LET j == FindFrom(s, t, i)
    IN  IF j = 0 THEN 0 ELSE 1 + CountFrom(s, t, j + Len(t))

Count(s, t) == CountFrom(s, t, 1)

\* the characters the regex class \w matches (ASCII letters, digits, underscore)
WordChars ==
    {"a", "b", "c", "d", "e", "f", "g", "h", "i", "j", "k", "l", "m", "n", "o", "p", "q", "r", "s", "t", "u", "v", "w", "x", "y", "z",
     "A", "B", "C", "D", "E", "F", "G", "H", "I", "J", "K", "L", "M", "N", "O", "P", "Q", "R", "S", "T", "U", "V", "W", "X", "Y", "Z",
     "0", "1", "2", "3", "4", "5", "6", "7", "8", "9", "_"}

\* the ASCII characters \s and str.split() treat as whitespace: space, tab,
\* line feed, carriage return, form feed, vertical tab (0x0b) and the four
\* separators 0x1c to 0x1f
SpaceChars == {" ", "\t", "\n", "\r", "\f", "", "", "", "", ""}

\* re.sub(r'[^\w\s]', ' ', s), by halves
RECURSIVE SubPunct(_)
SubPunct(s) ==
    IF Len(s) = 0 THEN ""
    ELSE IF Len(s) = 1 THEN (IF s \in WordChars \/ s \in SpaceChars THEN s ELSE " ")
    ELSE LET h == Len(s) \div 2
         IN  SubPunct(SubSeq(s, 1, h)) \o SubPunct(SubSeq(s, h + 1, Len(s)))

RECURSIVE SortedSeq(_)
SortedSeq(S) ==
    IF S = {} THEN <<>>
    ELSE LET m == CHOOSE i \in S : \A j \in S : i <= j
         IN  <<m>> \o SortedSeq(S \ {m})

\* str.split(): the maximal runs of non-whitespace characters, left to right
Split(s) ==
    LET in(i)  == CharAt(s, i) \notin SpaceChars
        starts == SortedSeq({i \in 1..Len(s) : in(i) /\ (i = 1 \/ ~in(i - 1))})
        ends   == SortedSeq({i \in 1..Len(s) : in(i) /\ (i = Len(s) \/ ~in(i + 1))})
    IN  [k \in 1..Len(starts) |-> SubSeq(s, starts[k], ends[k])]

\* _tokenize_text
tokenize_text(text) == Split(SubPunct(text))

\* len(re.findall(r'\b' + re.escape(t) + r'\b', s)) for a term t made of word
\* characters: the occurrences of t with no word character on either side
RECURSIVE CountWordFrom(_, _, _)
CountWordFrom(s, t, i) ==
    LET ok(j)  == /\ SubSeq(s, j, j + Len(t) - 1) = t
                  /\ (j = 1 \/ CharAt(s, j - 1) \notin WordChars)
                  /\ (j + Len(t) > Len(s) \/ CharAt(s, j + Len(t)) \notin WordChars)
        hits   == {j \in i..(Len(s) - Len(t) + 1) : ok(j)}
        j0     == CHOOSE j \in hits : \A k \in hits : j <= k
    IN  IF hits = {} THEN 0 ELSE 1 + CountWordFrom(s, t, j0 + Len(t))

CountWord(s, t) == CountWordFrom(s, t, 1)

(***************************************************************************)
(* The static tables (RelevanceCalculator.__init__ and the literals of the *)
(* boost functions).  A dict is the sequence of its <<key, value>> pairs   *)
(* in iteration order.  The nine non-ASCII characters of the symbol list   *)
(* are written as ASCII stand-ins, which the texts of the model use for    *)
(* them and for nothing else:                                              *)
(*   integral ~   sum #   partial @   nabla ^   infinity %                 *)
(*   less-or-equal <   greater-or-equal >   not-equal |   plus-minus &     *)
(***************************************************************************)
\* self.stop_words (a set: membership only)
stop_words ==
    {
    "a", "an", "and", "are", "as", "at", "be", "by", "for", "from", "has",
    "he", "in", "is", "it", "its", "of", "on", "that", "the", "to", "was",
    "will", "with", "this", "but", "they", "have", "had", "what", "said",
    "each", "which", "their", "time", "if"
    }

\* self.math_terms_weights, in insertion (= iteration) order
math_terms_weights ==
    <<
    <<"algebra", F1_6>>, <<"calculus", F1_6>>,
    <<"geometry", F1_6>>, <<"topology", F1_7>>,
    <<"analysis", F1_7>>, <<"statistics", F1_5>>,
    <<"probability", F1_5>>, <<"combinatorics", F1_6>>,
    <<"number theory", F1_7>>,
    <<"differential equations", F1_6>>,
    <<"linear algebra", F1_6>>, <<"abstract algebra", F1_7>>,
    <<"real analysis", F1_8>>, <<"complex analysis", F1_8>>,
    <<"functional analysis", F1_8>>,
    <<"algebraic geometry", F1_8>>,
    <<"differential geometry", F1_8>>, <<"theorem", F1_4>>,
    <<"lemma", F1_3>>, <<"corollary", F1_3>>,
    <<"proof", F1_3>>, <<"axiom", F1_4>>,
    <<"definition", F1_2>>, <<"proposition", F1_3>>,
    <<"conjecture", F1_5>>, <<"hypothesis", F1_3>>,
    <<"function", F1_3>>, <<"derivative", F1_4>>,
    <<"integral", F1_4>>, <<"limit", F1_4>>,
    <<"matrix", F1_3>>, <<"vector", F1_3>>,
    <<"polynomial", F1_3>>, <<"logarithm", F1_3>>,
    <<"exponential", F1_3>>, <<"trigonometry", F1_4>>,
    <<"sine", F1_2>>, <<"cosine", F1_2>>,
    <<"tangent", F1_2>>, <<"series", F1_4>>,
    <<"sequence", F1_3>>, <<"convergence", F1_4>>,
    <<"divergence", F1_4>>, <<"formula", F1_3>>,
    <<"equation", F1_3>>, <<"inequality", F1_3>>,
    <<"optimization", F1_4>>, <<"algorithm", F1_3>>,
    <<"method", F1_2>>, <<"technique", F1_2>>,
    <<"approximation", F1_3>>, <<"iteration", F1_3>>,
    <<"manifold", F1_8>>, <<"homomorphism", F1_8>>,
    <<"isomorphism", F1_8>>, <<"eigenvalue", F1_5>>,
    <<"eigenvector", F1_5>>, <<"fourier", F1_6>>,
    <<"laplace", F1_6>>, <<"transform", F1_4>>,
    <<"group theory", F1_7>>, <<"ring theory", F1_7>>,
    <<"field theory", F1_7>>, <<"category theory", F1_9>>,
    <<"measure theory", F1_8>>, <<"operator theory", F1_8>>,
    <<"model", F1_2>>, <<"simulation", F1_3>>,
    <<"numerical", F1_4>>, <<"computational", F1_4>>,
    <<"applied", F1_3>>, <<"mathematical modeling", F1_5>>,
    <<"mathematical physics", F1_6>>,
    <<"operations research", F1_4>>, <<"logic", F1_5>>,
    <<"set theory", F1_6>>, <<"mathematical logic", F1_7>>,
    <<"foundations", F1_6>>, <<"axiomatics", F1_6>>
    >>

\* self.academic_sources, in insertion (= iteration) order
academic_sources ==
    <<
    <<"arxiv.org", F1_9>>, <<"mathscinet.ams.org", F1_9>>,
    <<"zbmath.org", F1_8>>, <<"mathworld.wolfram.com", F1_8>>,
    <<"planetmath.org", F1_7>>, <<"mathoverflow.net", F1_7>>,
    <<"math.stackexchange.com", F1_6>>, <<"mit.edu", F1_8>>,
    <<"stanford.edu", F1_8>>, <<"harvard.edu", F1_8>>,
    <<"princeton.edu", F1_8>>, <<"caltech.edu", F1_8>>,
    <<"berkeley.edu", F1_7>>, <<"cmu.edu", F1_7>>,
    <<"yale.edu", F1_7>>, <<"columbia.edu", F1_7>>,
    <<"uchicago.edu", F1_7>>, <<"cambridge.ac.uk", F1_7>>,
    <<"ox.ac.uk", F1_7>>, <<"imperial.ac.uk", F1_6>>,
    <<"ethz.ch", F1_7>>, <<"ens.fr", F1_7>>,
    <<"u-tokyo.ac.jp", F1_6>>, <<"springer.com", F1_6>>,
    <<"elsevier.com", F1_6>>, <<"wiley.com", F1_5>>,
    <<"cambridge.org", F1_6>>, <<"jstor.org", F1_7>>,
    <<"projecteuclid.org", F1_7>>, <<"ams.org", F1_8>>,
    <<"khanacademy.org", F1_4>>, <<"coursera.org", F1_3>>,
    <<"edx.org", F1_3>>, <<"brilliant.org", F1_4>>,
    <<"wikipedia.org", F1_3>>, <<"scholarpedia.org", F1_4>>,
    <<"nist.gov", F1_5>>, <<"wolfram.com", F1_5>>,
    <<"mathworks.com", F1_4>>, <<"sagemath.org", F1_4>>,
    <<"sympy.org", F1_4>>, <<"artofproblemsolving.com", F1_4>>,
    <<"imo-official.org", F1_5>>, <<"maa.org", F1_6>>,
    <<"siam.org", F1_6>>, <<"ieee.org", F1_5>>
    >>

\* advanced_concepts list
advanced_concepts ==
    <<
    "manifold", "topology", "homomorphism", "isomorphism", "eigenvalue",
    "eigenvector", "fourier", "laplace", "differential equations",
    "number theory", "analysis", "abstract algebra", "real analysis",
    "complex analysis", "functional analysis", "measure theory",
    "category theory"
    >>

\* research_keywords list
research_keywords ==
    <<
    "theorem", "proof", "lemma", "corollary", "conjecture", "axiom",
    "proposition", "research", "paper", "journal", "publication", "study",
    "investigation", "novel", "new"
    >>

\* academic_indicators of _get_academic_level_boost, in iteration order
academic_indicators ==
    <<
    <<"phd", F1_4>>, <<"doctorate", F1_4>>,
    <<"professor", F1_3>>, <<"research", F1_3>>,
    <<"university", F1_2>>, <<"college", F1_1>>,
    <<"journal", F1_4>>, <<"paper", F1_3>>,
    <<"article", F1_2>>, <<"publication", F1_3>>,
    <<"proceedings", F1_3>>, <<"conference", F1_2>>,
    <<"graduate", F1_3>>, <<"undergraduate", F1_1>>,
    <<"advanced", F1_2>>, <<"introduction", F1_0>>,
    <<"basic", F0_9>>, <<"elementary", F0_8>>,
    <<"course", F1_1>>, <<"lecture", F1_2>>,
    <<"seminar", F1_3>>, <<"workshop", F1_1>>,
    <<"tutorial", F1_0>>
    >>

\* advanced_terms list
advanced_terms ==
    <<
    "manifold", "homomorphism", "isomorphism", "topology", "category theory",
    "measure theory", "functional analysis", "real analysis",
    "complex analysis", "abstract algebra", "algebraic geometry",
    "differential geometry", "operator theory"
    >>

\* complexity_indicators of _calculate_mathematical_complexity_score, in iteration order
complexity_indicators ==
    <<
    <<"proof", F2_0>>, <<"theorem", F2_0>>,
    <<"lemma", F1_8>>, <<"corollary", F1_8>>,
    <<"conjecture", F2_2>>, <<"homomorphism", F2_5>>,
    <<"isomorphism", F2_5>>, <<"manifold", F2_3>>,
    <<"topology", F2_1>>, <<"category theory", F2_8>>,
    <<"measure theory", F2_4>>,
    <<"functional analysis", F2_6>>, <<"real analysis", F2_4>>,
    <<"complex analysis", F2_4>>,
    <<"differential equations", F2_2>>,
    <<"abstract algebra", F2_3>>, <<"group theory", F2_2>>,
    <<"ring theory", F2_2>>, <<"field theory", F2_2>>,
    <<"algebraic geometry", F2_7>>,
    <<"differential geometry", F2_5>>, <<"algebra", F1_2>>,
    <<"calculus", F1_3>>, <<"geometry", F1_1>>,
    <<"statistics", F1_0>>, <<"probability", F1_1>>
    >>

\* math_symbols
math_symbols ==
    <<
    "~", "#", "@", "^", "%", "<", ">", "|", "&"
    >>

\* edu_domains
edu_domains ==
    <<
    ".edu", ".ac.", "university", "college"
    >>

(***************************************************************************)
(* The boost factors (the helpers of apply_math_domain_boost).             *)
(***************************************************************************)
\* the entries of a table whose key occurs in the text, in table order
Matched(table, text) == SelectSeq(table, LAMBDA e : Contains(text, e[1]))

\* the number of keys of a list that occur in the text
CountPresent(list, text) == Len(SelectSeq(list, LAMBDA t : Contains(text, t)))

\* a variant that knows no academic source
source_boost_default(url) == F1_0

\* a variant that takes the longest table domain found in the url
source_boost_longest(url) ==
    LET found == Matched(academic_sources, Lower(url))
    IN  IF found = <<>> THEN F1_0
        ELSE found[CHOOSE i \in DOMAIN found :
                    \A j \in DOMAIN found : Len(found[j][1]) <= Len(found[i][1])][2]

\* _get_source_boost: the weight of the first table domain found in the url
get_source_boost(url) ==
    LET found == Matched(academic_sources, Lower(url))
    IN  IF found = <<>> THEN F1_0 ELSE found[1][2]

\* math_term_count of _calculate_math_term_density after the first k of the
\* table entries found in the text: a term with a space counts its occurrences
\* as a substring, a single word its occurrences between word boundaries
RECURSIVE math_term_count(_, _, _)
math_term_count(text_lower, found, k) ==
    IF k = 0 THEN 0
    ELSE math_term_count(text_lower, found, k - 1)
         + (IF Contains(found[k][1], " ")
            THEN Count(text_lower, found[k][1])
            ELSE CountWord(text_lower, found[k][1]))

\* a variant of the tiers whose lowest is 1.1
density_tier_floor(density) ==
    IF FLe(F0_4, density) THEN F1_3
    ELSE IF FLe(F0_25, density) THEN F1_25
    ELSE IF FLe(F0_15, density) THEN F1_2
    ELSE F1_1

\* the density tiers of _calculate_math_term_density
density_tier(density) ==
    IF FLe(F0_4, density) THEN F1_3
    ELSE IF FLe(F0_25, density) THEN F1_25
    ELSE IF FLe(F0_15, density) THEN F1_2
    ELSE IF FLe(F0_05, density) THEN F1_1
    ELSE F1_0

\* _calculate_math_term_density for a text of n_words tokens
density_boost(text_lower, found, n_words) ==
    IF n_words = 0 THEN F1_0
    ELSE density_tier(FDiv(FromInt(math_term_count(text_lower, found, Len(found))),
                           FromInt(n_words)))

\* _calculate_math_term_density
calculate_math_term_density(text) ==
    density_boost(Lower(text), Matched(math_terms_weights, Lower(text)),
                  Len(tokenize_text(text)))

\* _calculate_math_term_cooccurrence
calculate_math_term_cooccurrence(text) ==
    LET n == CountPresent(advanced_terms, text)
    IN  IF n >= 3 THEN F1_4
        ELSE IF n = 2 THEN F1_2
        ELSE IF n = 1 THEN F1_1
        ELSE F1_0

\* _get_math_terms_boost
\* the loop of _get_math_terms_boost over the table entries found in the text:
\* boost *= (1.0 + (weight - 1.0) * term_count * 0.1)
RECURSIVE terms_product(_, _, _)
terms_product(text_lower, found, k) ==
    IF k = 0 THEN F1_0
    ELSE FMul(terms_product(text_lower, found, k - 1),
              FAdd(F1_0, FMul(FMul(FSub(found[k][2], F1_0),
                                   FromInt(Count(text_lower, found[k][1]))),
                              F0_1)))

\* a variant of the end of _get_math_terms_boost without the cap
terms_boost_uncapped(text_lower, found) ==
    FMul(FMul(terms_product(text_lower, found, Len(found)),
              calculate_math_term_density(text_lower)),
         calculate_math_term_cooccurrence(text_lower))

terms_boost_lower(text_lower, found) ==
    FMin(FMul(FMul(terms_product(text_lower, found, Len(found)),
                   calculate_math_term_density(text_lower)),
              calculate_math_term_cooccurrence(text_lower)),
         F2_5)

\* _get_math_terms_boost
get_math_terms_boost(text) ==
    terms_boost_lower(Lower(text), Matched(math_terms_weights, Lower(text)))

\* _get_math_domain_depth_boost
\* if count > 0: depth_boost *= (1.0 + count * step)
depth_count_step(depth_boost, count, step) ==
    IF count > 0 THEN FMul(depth_boost, FAdd(F1_0, FMul(FromInt(count), step)))
    ELSE depth_boost

\* if cond: depth_boost *= factor
depth_flag_step(depth_boost, cond, factor) ==
    IF cond THEN FMul(depth_boost, factor) ELSE depth_boost

\* _get_math_domain_depth_boost: the four steps in the order of the source
\* (advanced concepts, research keywords, math symbols, LaTeX markers)
depth_boost_lower(text, text_lower) ==
    FMin(depth_flag_step(
             depth_flag_step(
                 depth_count_step(
                     depth_count_step(F1_0, CountPresent(advanced_concepts, text_lower),
                                      F0_15),
                     CountPresent(research_keywords, text_lower), F0_1),
                 CountPresent(math_symbols, text) > 0, F1_2),
             Contains(text, "$") \/ Contains(text, "\\"), F1_15),
         F1_8)

\* _get_math_domain_depth_boost
get_math_domain_depth_boost(text) == depth_boost_lower(text, Lower(text))

\* f"{result.title} {result.snippet}"
TitleSnippet(result) == result.title \o " " \o result.snippet

\* _get_academic_level_boost
\* the product of the weights of the first k entries of `found`
RECURSIVE weights_product(_, _)
weights_product(found, k) ==
    IF k = 0 THEN F1_0 ELSE FMul(weights_product(found, k - 1), found[k][2])

\* a variant of the end of _get_academic_level_boost without the clamp
academic_level_unclamped(level_boost, edu_url) ==
    IF edu_url THEN FMul(level_boost, F1_2) ELSE level_boost

\* a variant whose url bonus is 1.5
academic_level_bonus(level_boost, edu_url) ==
    FMin(FMax(IF edu_url THEN FMul(level_boost, F1_5) ELSE level_boost, F0_8), F1_6)

\* the end of _get_academic_level_boost: the url bonus and the clamp
academic_level_clamp(level_boost, edu_url) ==
    FMin(FMax(IF edu_url THEN FMul(level_boost, F1_2) ELSE level_boost, F0_8), F1_6)

academic_level_found(found, url_lower) ==
    academic_level_clamp(weights_product(found, Len(found)),
                         CountPresent(edu_domains, url_lower) > 0)

\* _get_academic_level_boost
get_academic_level_boost(result) ==
    academic_level_found(Matched(academic_indicators, Lower(TitleSnippet(result))),
                         Lower(result.url))

\* _calculate_mathematical_complexity_score
\* complexity_score after the first k entries of `found`
RECURSIVE weights_sum(_, _)
weights_sum(found, k) ==
    IF k = 0 THEN FZero ELSE FAdd(weights_sum(found, k - 1), found[k][2])

\* the score from the indicators found: 1.0 for none, and else
\* min(1.0 + (avg_complexity - 1.0) * 0.3, 2.0)
complexity_found(found) ==
    IF Len(found) = 0 THEN F1_0
    ELSE FMin(FAdd(F1_0,
                   FMul(FSub(FDiv(weights_sum(found, Len(found)), FromInt(Len(found))),
                             F1_0),
                        F0_3)),
              F2_0)

\* _calculate_mathematical_complexity_score
calculate_mathematical_complexity_score(text) ==
    complexity_found(Matched(complexity_indicators, Lower(text)))

(***************************************************************************)
(* Base relevance (calculate_relevance and its helpers).                   *)
(*                                                                         *)
(* Two loops of the engine run over a Python set of strings, whose         *)
(* iteration order depends on the process's string hash seed, and float    *)
(* sums and products depend on the order of their terms; v ** 2 is only    *)
(* accurate to one unit in the last place.  A helper that depends on       *)
(* either is the set of the values the call can return.                    *)
(***************************************************************************)
Range(f) == {f[i] : i \in DOMAIN f}

\* the orders in which a set can be iterated
Perms(S) ==
    {f \in [1..Cardinality(S) -> S] : \A i, j \in DOMAIN f : f[i] = f[j] => i = j}

\* the number of occurrences of w in the list ws (Counter(ws).get(w, 0))
Occurrences(ws, w) == Cardinality({i \in DOMAIN ws : ws[i] = w})

\* the word list of _custom_tfidf_similarity: lowercased tokens that are not
\* stop words and are longer than one character
ContentWords(text) ==
    SelectSeq(tokenize_text(Lower(text)), LAMBDA w : w \notin stop_words /\ Len(w) > 1)

\* a dict built in a loop over a set is the set of its <<key, value>> pairs
DictGet(d, key) == (CHOOSE e \in d : e[1] = key)[2]

\* _cosine_similarity sums dot_product, norm1 ** 2 and norm2 ** 2 over `words`
\* in the iteration order of the set, the same order for the three sums.
\* Words with the same pair v = <<vec1.get(word, 0), vec2.get(word, 0)>> add
\* the same to the sums, so an order is told by the pairs of its words:
\* the number of words of `words` of each pair
cosine_terms(vec1, vec2, words) ==
    [v \in {<<DictGet(vec1, w), DictGet(vec2, w)>> : w \in words} |->
        Cardinality({w \in words : <<DictGet(vec1, w), DictGet(vec2, w)>> = v})]

\* One more word of the pair v added to the sums p = <<words seen of each
\* pair, dot_product, sum of vec1 squares, sum of vec2 squares>>, the squares
\* being a and b
cosine_add(p, v, prod, a, b) ==
    <<[p[1] EXCEPT ![v] = @ + 1], FAdd(p[2], prod), FAdd(p[3], a), FAdd(p[4], b)>>

\* the sums p after one more word, whichever of the words left comes next
cosine_next(terms, p) ==
    {cosine_add(p, e[1], FMul(e[1][1], e[1][2]), e[2], e[3]) :
        e \in UNION {{v} \X FPow2(v[1]) \X FPow2(v[2]) :
                        v \in {u \in DOMAIN terms : p[1][u] < terms[u]}}}

\* the sums after the first k words of every iteration order
RECURSIVE cosine_sums(_, _)
cosine_sums(terms, k) ==
    IF k = 0 THEN {<<[v \in DOMAIN terms |-> 0], FZero, FZero, FZero>>}
    ELSE UNION {cosine_next(terms, p) : p \in cosine_sums(terms, k - 1)}

\* the end of _cosine_similarity: the zero test and the quotient
cosine_quotient(dot, norm1, norm2) ==
    IF IsZero(norm1) \/ IsZero(norm2) THEN FZero ELSE FDiv(dot, FMul(norm1, norm2))

\* the rest of _cosine_similarity from the three sums
cosine_similarity(sums) == cosine_quotient(sums[2], FSqrt(sums[3]), FSqrt(sums[4]))

\* _custom_tfidf_similarity
\* idf = math.log(2 / df) for a word of all_words (df is 1 or 2)
idf(words1, words2, w) ==
    IF Occurrences(words1, w) > 0 /\ Occurrences(words2, w) > 0 THEN Ln1 ELSE Ln2

\* the dict tfidf1 (tfidf2 with the word lists swapped):
\* tf.get(word, 0) / len(words) * (1 + idf)
tfidf(words, others, all_words) ==
    {<<w, FMul(FDiv(FromInt(Occurrences(words, w)), FromInt(Len(words))),
               FAdd(F1_0, idf(words, others, w)))>> : w \in all_words}

\* _cosine_similarity(tfidf1, tfidf2, all_words) over every iteration order
cosine_over_orders(tfidf1, tfidf2, all_words) ==
    {cosine_similarity(t) :
        t \in UNION {cosine_sums(terms, Cardinality(all_words)) :
                        terms \in {cosine_terms(tfidf1, tfidf2, all_words)}}}

tfidf_similarity_words(words1, words2, all_words) ==
    IF words1 = <<>> \/ words2 = <<>> THEN {FZero}
    ELSE cosine_over_orders(tfidf(words1, words2, all_words),
                            tfidf(words2, words1, all_words), all_words)

tfidf_similarity_lists(words1, words2) ==
    tfidf_similarity_words(words1, words2, Range(words1) \cup Range(words2))

\* _custom_tfidf_similarity
custom_tfidf_similarity(text1, text2) ==
    tfidf_similarity_lists(ContentWords(text1), ContentWords(text2))

\* a variant that divides by the number of words of the first text
word_overlap_first(words1, words2) ==
    IF words1 = {} \/ words2 = {} THEN FZero
    ELSE FDiv(FromInt(Cardinality(words1 \cap words2)),
              FromInt(Cardinality(words1)))

\* _calculate_word_overlap (the fallback of _calculate_tfidf_similarity)
\* the Jaccard index of two word sets, 0.0 when either is empty
word_overlap_sets(words1, words2) ==
    IF words1 = {} \/ words2 = {} THEN FZero
    ELSE FDiv(FromInt(Cardinality(words1 \cap words2)),
              FromInt(Cardinality(words1 \cup words2)))

calculate_word_overlap(text1, text2) ==
    word_overlap_sets(Range(tokenize_text(Lower(text1))),
                      Range(tokenize_text(Lower(text2))))

\* _calculate_tfidf_similarity: _custom_tfidf_similarity raises for no pair of
\* strings, so the except branch (calculate_word_overlap) is never taken
calculate_tfidf_similarity(query, result) ==
    custom_tfidf_similarity(query, TitleSnippet(result))

\* the except branch of _calculate_tfidf_similarity: what the call returns
\* when the computation of _custom_tfidf_similarity itself fails
tfidf_similarity_except(query, result) ==
    calculate_word_overlap(query, TitleSnippet(result))

\* self.math_terms_weights[term] / term in self.math_terms_weights
TermWeight(term) ==
    LET found == SelectSeq(math_terms_weights, LAMBDA e : e[1] = term)
    IN  IF found = <<>> THEN F1_0 ELSE found[1][2]

\* _calculate_keyword_matching
\* math_term_boost of _calculate_keyword_matching after the first k words of
\* one iteration order of the intersection
RECURSIVE math_term_boost(_, _)
math_term_boost(order, k) ==
    IF k = 0 THEN F1_0
    ELSE FMul(math_term_boost(order, k - 1), TermWeight(order[k]))

\* a variant without the cap: overlap_ratio * math_term_boost
keyword_scores_uncapped(overlap_ratio, intersection) ==
    {FMul(overlap_ratio, math_term_boost(order, Len(order))) :
        order \in Perms(intersection)}

\* min(overlap_ratio * math_term_boost, 1.0) over every iteration order
keyword_scores(overlap_ratio, intersection) ==
    {FMin(FMul(overlap_ratio, math_term_boost(order, Len(order))), F1_0) :
        order \in Perms(intersection)}

keyword_matching_sets(query_words, intersection) ==
    IF query_words = {} THEN {FZero}
    ELSE keyword_scores(FDiv(FromInt(Cardinality(intersection)),
                             FromInt(Cardinality(query_words))),
                        intersection)

keyword_matching_words(query_words, result_words) ==
    keyword_matching_sets(query_words, query_words \cap result_words)

\* a variant in which a table term of several words that the query and the
\* text both contain multiplies the score by its weight too
calculate_keyword_matching_phrases(query, result) ==
    LET phrases == SelectSeq(math_terms_weights,
                       LAMBDA e : /\ Contains(e[1], " ")
                                  /\ Contains(Lower(query), e[1])
                                  /\ Contains(Lower(TitleSnippet(result)), e[1]))
        terms == <<>> \o [k \in 1..Len(phrases) |-> phrases[k][1]]
    IN  {FMin(FMul(v, math_term_boost(terms, Len(terms))), F1_0) :
            v \in keyword_matching_words(
                     Range(tokenize_text(Lower(query))),
                     Range(tokenize_text(Lower(TitleSnippet(result)))))}

\* _calculate_keyword_matching
calculate_keyword_matching(query, result) ==
    keyword_matching_words(Range(tokenize_text(Lower(query))),
                           Range(tokenize_text(Lower(TitleSnippet(result)))))

\* _calculate_title_boost
title_boost_words(query_words, title_words) ==
    IF query_words = {} THEN F1_0
    ELSE FAdd(F1_0, FMul(FDiv(FromInt(Cardinality(query_words \cap title_words)),
                              FromInt(Cardinality(query_words))),
                         F0_3))

\* _calculate_title_boost
calculate_title_boost(query, title) ==
    title_boost_words(Range(tokenize_text(Lower(query))),
                      Range(tokenize_text(Lower(title))))

\* a variant of the end of calculate_relevance without the clamp
final_relevance_unclamped(tfidf_score, keyword_score, math_boost, title_boost) ==
    FMul(FMul(FAdd(FAdd(FMul(tfidf_score, F0_4), FMul(keyword_score, F0_4)), F0_2),
              math_boost),
         title_boost)

\* a variant of the end of calculate_relevance without the base score 0.2
final_relevance_no_base(tfidf_score, keyword_score, math_boost, title_boost) ==
    FMin(FMax(FMul(FMul(FAdd(FMul(tfidf_score, F0_4), FMul(keyword_score, F0_4)),
                        math_boost),
                   title_boost),
              FZero),
         F1_0)

\* calculate_relevance: the values the call can return
\* the end of calculate_relevance: base_score, the two boosts and the clamp
final_relevance(tfidf_score, keyword_score, math_boost, title_boost) ==
    FMin(FMax(FMul(FMul(FAdd(FAdd(FMul(tfidf_score, F0_4), FMul(keyword_score, F0_4)),
                             F0_2),
                        math_boost),
                   title_boost),
              FZero),
         F1_0)

relevance_scores(tfidf_scores, keyword_scores_, math_boost, title_boost) ==
    {final_relevance(t, k, math_boost, title_boost) :
        t \in tfidf_scores, k \in keyword_scores_}

\* a variant in which detected math content lowers the score (0.8 for 1.2)
calculate_relevance_penalty(query, result) ==
    relevance_scores(calculate_tfidf_similarity(query, result),
                     calculate_keyword_matching(query, result),
                     IF result.math_content_detected THEN F0_8 ELSE F1_0,
                     calculate_title_boost(query, result.title))

\* calculate_relevance: the values the call can return
calculate_relevance(query, result) ==
    relevance_scores(calculate_tfidf_similarity(query, result),
                     calculate_keyword_matching(query, result),
                     IF result.math_content_detected THEN F1_2 ELSE F1_0,
                     calculate_title_boost(query, result.title))

(***************************************************************************)
(* Candidates.  A SearchResult is a record; objects live in `heap` (a      *)
(* sequence: a reference is an index), and a Python list of candidates is  *)
(* a sequence of references.                                               *)
(***************************************************************************)
\* SearchResult.__post_init__: TRUE iff construction does not raise ValueError
PostInitOk(r) ==
    /\ r.title # "" /\ r.url # ""
    /\ FLe(FZero, r.relevance_score) /\ FLe(r.relevance_score, F1_0)

\* a variant of the validation with exclusive bounds (0 < score < 1)
post_init_exclusive(r, negative) ==
    /\ r.title # "" /\ r.url # ""
    /\ ~negative /\ ~IsZero(r.relevance_score)
    /\ FLt(r.relevance_score, F1_0)

\* SearchResult.__post_init__ for a score given as a sign and a magnitude
\* (relevance_score is -r.relevance_score when `negative`): the test
\* 0 <= score fails for a negative score other than -0.0, the test
\* score <= 1 for a positive score above 1.0
PostInitSigned(r, negative) ==
    /\ r.title # "" /\ r.url # ""
    /\ (~negative \/ IsZero(r.relevance_score))
    /\ (negative \/ FLe(r.relevance_score, F1_0))

\* a variant that makes no copy: the boosted score is written into the input
\* candidate
CopyResultAlias(h, ref) == [heap |-> h, ref |-> ref]

\* boosted_result = SearchResult(title=result.title, ...): a new object with
\* the fields of h[ref]; the heap with it and the reference to it
CopyResult(h, ref) ==
    [heap |-> Append(h, [title                 |-> h[ref].title,
                         url                   |-> h[ref].url,
                         snippet               |-> h[ref].snippet,
                         source                |-> h[ref].source,
                         relevance_score       |-> h[ref].relevance_score,
                         timestamp             |-> h[ref].timestamp,
                         math_content_detected |-> h[ref].math_content_detected]),
     ref  |-> Len(h) + 1]

\* the math content factor of apply_math_domain_boost
math_content_boost(result) == IF result.math_content_detected THEN F1_15 ELSE F1_0

\* the six factors of apply_math_domain_boost, in the order in which
\* total_boost is multiplied by them
boost_factors(result) ==
    <<get_source_boost(result.url),
      math_content_boost(result),
      get_math_terms_boost(TitleSnippet(result)),
      get_math_domain_depth_boost(TitleSnippet(result)),
      calculate_mathematical_complexity_score(TitleSnippet(result)),
      get_academic_level_boost(result)>>

\* a variant of the product that leaves out the complexity factor
factors_product_five(fs) == FMul(FMul(FMul(FMul(fs[1], fs[2]), fs[3]), fs[4]), fs[6])

\* total_boost = source_boost; total_boost *= <the next factor>; ...
factors_product(fs) ==
    FMul(FMul(FMul(FMul(FMul(fs[1], fs[2]), fs[3]), fs[4]), fs[5]), fs[6])

\* total_boost of apply_math_domain_boost (the factors are computed first)
total_boost(result) ==
    CHOOSE t \in {factors_product(fs) : fs \in {boost_factors(result)}} : TRUE

\* a variant without the clamp: original_score * total_boost
boosted_score_unclamped(result) == FMul(result.relevance_score, total_boost(result))

\* the score apply_math_domain_boost writes for a candidate
boosted_score(result) == FMin(FMul(result.relevance_score, total_boost(result)), F1_0)

\* a variant of the loop body that puts the boosted candidate in front of
\* boosted_results
boost_prepend(list, copy, score) ==
    [heap |-> [copy.heap EXCEPT ![copy.ref].relevance_score = score],
     list |-> <<copy.ref>> \o list]

\* one iteration of the loop of apply_math_domain_boost: the copy of the
\* candidate gets the boosted score and is appended to boosted_results
boost_append(list, copy, score) ==
    [heap |-> [copy.heap EXCEPT ![copy.ref].relevance_score = score],
     list |-> Append(list, copy.ref)]

boost_step(prev, ref) ==
    boost_append(prev.list, CopyResult(prev.heap, ref), boosted_score(prev.heap[ref]))

\* apply_math_domain_boost: the set of the one pair of the heap and the
\* returned list after the loop has handled the first k elements of `results`
RECURSIVE boost_loop(_, _, _)
boost_loop(h, results, k) ==
    IF k = 0 THEN {[heap |-> h, list |-> <<>>]}
    ELSE {boost_step(prev, results[k]) : prev \in boost_loop(h, results, k - 1)}

apply_math_domain_boost(h, results) ==
    CHOOSE out \in boost_loop(h, results, Len(results)) : TRUE

\* the sort key of rank_results
rank_key(x) ==
    <<x.relevance_score,
      IF x.math_content_detected THEN 1 ELSE 0,
      get_source_boost(x.url),
      x.timestamp>>

\* tuple comparison a < b of two sort keys (float, int, float, datetime)
key_less(a, b) ==
    \/ FLt(a[1], b[1])
    \/ a[1] = b[1] /\ a[2] < b[2]
    \/ a[1] = b[1] /\ a[2] = b[2] /\ FLt(a[3], b[3])
    \/ a[1] = b[1] /\ a[2] = b[2] /\ a[3] = b[3] /\ a[4] < b[4]

\* a variant of the sort in ascending order (reverse=False)
sorted_asc(keys, results) ==
    LET n      == Len(results)
        pos(i) == 1 + Cardinality({j \in 1..n : key_less(keys[j], keys[i])})
                    + Cardinality({j \in 1..(i - 1) : keys[j] = keys[i]})
    IN  [p \in 1..n |-> results[CHOOSE i \in 1..n : pos(i) = p]]

\* a variant of the sort that returns its first element in every position
sorted_first(keys, results) ==
    LET n      == Len(results)
        pos(i) == 1 + Cardinality({j \in 1..n : key_less(keys[i], keys[j])})
                    + Cardinality({j \in 1..(i - 1) : keys[j] = keys[i]})
    IN  [p \in 1..n |-> results[CHOOSE i \in 1..n : pos(i) = 1]]

\* a variant of the sort that reverses an ascending sort: descending by
\* key, and elements with equal keys in the reverse of their input order
sorted_reversed(keys, results) ==
    LET n      == Len(results)
        pos(i) == 1 + Cardinality({j \in 1..n : key_less(keys[i], keys[j])})
                    + Cardinality({j \in (i + 1)..n : keys[j] = keys[i]})
    IN  [p \in 1..n |-> results[CHOOSE i \in 1..n : pos(i) = p]]

\* sorted(results, key=..., reverse=True): descending by key, and elements
\* with equal keys in their input order (the sort is stable)
sorted_desc(keys, results) ==
    LET n      == Len(results)
        pos(i) == 1 + Cardinality({j \in 1..n : key_less(keys[i], keys[j])})
                    + Cardinality({j \in 1..(i - 1) : keys[j] = keys[i]})
    IN  [p \in 1..n |-> results[CHOOSE i \in 1..n : pos(i) = p]]

\* rank_results
rank_results(h, results) ==
    sorted_desc(<<>> \o [k \in 1..Len(results) |-> rank_key(h[results[k]])], results)

\* result.title[:50] + '...' if len(result.title) > 50 else result.title
metric_title(title) == IF Len(title) > 50 THEN SubSeq(title, 1, 50) \o "..." ELSE title

\* a variant of the complete record without the title
metric_totals_untitled(m, total) ==
    [base_relevance        |-> m.base_relevance,
     source_boost          |-> m.source_boost,
     math_terms_boost      |-> m.math_terms_boost,
     domain_depth_boost    |-> m.domain_depth_boost,
     complexity_boost      |-> m.complexity_boost,
     academic_level_boost  |-> m.academic_level_boost,
     math_content_detected |-> m.math_content_detected,
     url                   |-> m.url,
     total_boost           |-> total,
     final_score           |-> FMin(FMul(m.base_relevance, total), F1_0)]

\* one record of get_advanced_sorting_metrics
\* metric['total_boost'] and metric['final_score'] added to the record m
metric_totals(m, total) ==
    [base_relevance        |-> m.base_relevance,
     source_boost          |-> m.source_boost,
     math_terms_boost      |-> m.math_terms_boost,
     domain_depth_boost    |-> m.domain_depth_boost,
     complexity_boost      |-> m.complexity_boost,
     academic_level_boost  |-> m.academic_level_boost,
     math_content_detected |-> m.math_content_detected,
     url                   |-> m.url,
     title                 |-> m.title,
     total_boost           |-> total,
     final_score           |-> FMin(FMul(m.base_relevance, total), F1_0)]

\* a variant of the product that multiplies by the math content factor twice
metric_product_twice(m) ==
    FMul(FMul(FMul(FMul(FMul(FMul(m.source_boost, m.math_terms_boost),
                             m.domain_depth_boost),
                        m.complexity_boost),
                   m.academic_level_boost),
              IF m.math_content_detected THEN F1_15 ELSE F1_0),
         IF m.math_content_detected THEN F1_15 ELSE F1_0)

\* the product get_advanced_sorting_metrics forms from the record's entries
metric_product(m) ==
    FMul(FMul(FMul(FMul(FMul(m.source_boost, m.math_terms_boost), m.domain_depth_boost),
                   m.complexity_boost),
              m.academic_level_boost),
         IF m.math_content_detected THEN F1_15 ELSE F1_0)

\* the record get_advanced_sorting_metrics first builds for a candidate
metric_factors(result) ==
    [base_relevance        |-> result.relevance_score,
     source_boost          |-> get_source_boost(result.url),
     math_terms_boost      |-> get_math_terms_boost(TitleSnippet(result)),
     domain_depth_boost    |-> get_math_domain_depth_boost(TitleSnippet(result)),
     complexity_boost      |-> calculate_mathematical_complexity_score(TitleSnippet(result)),
     academic_level_boost  |-> get_academic_level_boost(result),
     math_content_detected |-> result.math_content_detected,
     url                   |-> result.url,
     title                 |-> metric_title(result.title)]

metric_complete(m) == metric_totals(m, metric_product(m))

\* one record of get_advanced_sorting_metrics
metric(result) == metric_complete(metric_factors(result))

\* a variant that ends the list with a record of totals
metrics_with_totals(h, results) ==
    <<>> \o [k \in 1..(Len(results) + 1) |->
                IF k <= Len(results) THEN metric(h[results[k]])
                ELSE metric([title |-> "TOTAL", url |-> "", snippet |-> "",
                             source |-> "", relevance_score |-> FZero,
                             timestamp |-> 0, math_content_detected |-> FALSE])]

\* a variant that reports the candidates in ranked order
metrics_ranked(h, results) ==
    <<>> \o [k \in 1..Len(results) |-> metric(h[rank_results(h, results)[k]])]

\* get_advanced_sorting_metrics: one record per element of `results`
get_advanced_sorting_metrics(h, results) ==
    <<>> \o [k \in 1..Len(results) |-> metric(h[results[k]])]

(***************************************************************************)
(* The caller and the engine as a state machine.  The engine's only state  *)
(* is the three tables __init__ builds, which no method assigns; the rest  *)
(* is the callers': the objects, the list, what the last call returned,    *)
(* and what each process has been returned so far.  The operators read     *)
(* the tables by their definitions, the value `tables` holds throughout.   *)
(***************************************************************************)
VARIABLES
    heap,       \* the SearchResult objects
    results,    \* the caller's candidate list (references)
    call,       \* the last call: its name and its scalar arguments
    ret,        \* what the last call returned
    boosts,     \* the number of boost calls made so far
    tables,     \* the calculator's static tables, as __init__ built them
    callers     \* per process, the calls it has made and what they returned

vars == <<heap, results, call, ret, boosts, tables, callers>>

\* the longest list the caller builds in the main runs
MaxLen == 2

\* the most boost calls in one main run (each may be applied to the output of
\* the one before)
MaxBoosts == 2

\* the longest list of the relevance runs
MaxRelLen == 1

\* the longest list of the ranking runs
MaxRankLen == 3

NoCall == [op |-> "none", query |-> "", index |-> 0]

\* what a call returned: a list of candidates, a float or a list of metrics
\* records, by kind
NoRet == [kind |-> "none", list |-> <<>>, val |-> FZero, metrics |-> <<>>]

Candidate(title, url, snippet, score, ts, flag) ==
    [title |-> title, url |-> url, snippet |-> snippet, source |-> "web",
     relevance_score |-> score, timestamp |-> ts, math_content_detected |-> flag]

\* the candidates the supply of the main runs offers: a text rich in advanced
\* terms from arXiv with a high score, two plain ones with low scores, and one
\* whose score SearchResult rejects
Pool ==
    {Candidate("Manifold homomorphism category theory", "arxiv.org/abs/1", "",
               F0_95, 3, TRUE),
     Candidate("Basic", "x.com/2", "", F0_3, 2, TRUE),
     Candidate("Topology", "arxiv.org/1", "", F0_05, 1, TRUE),
     Candidate("Basic", "x.com/2", "", F1_1, 2, TRUE)}

\* the candidates and the queries of the runs of the two scoring stages
StagePool ==
    {Candidate("Topology", "arxiv.org/1", "", F0_05, 1, TRUE),
     Candidate("Basic algebra", "x.com/2", "", F0_3, 2, FALSE),
     Candidate("Calculus", "mit.edu/3", "limits", F0_95, 3, TRUE),
     Candidate("Calculus", "", "limits", F0_95, 3, TRUE)}

StageQueries == {"topology", "basic calculus"}

\* the candidates and the queries of the relevance runs
RelPool ==
    {Candidate(d[1], "x.com/1", d[2], F0_3, 1, flag) :
        d \in {<<"Topology", "">>, <<"Basic algebra", "">>,
               <<"Manifold", "theory of it">>, <<"Calculus", "limits">>,
               <<"x_1 proof", "">>, <<"The", "a">>, <<"Algebra", "group">>,
               <<"", "topology">>},
        flag \in BOOLEAN}

RelQueries ==
    {"topology", "Topology!", "", "the", "manifold theory", "basic algebra",
     "calculus topology", "x_1"}

\* 0.6, a score of the ranking runs
F0_6 == [m |-> <<13107, 3276, 13107, 1228>>, x |-> -53]

\* the candidates of the ranking runs: they differ from the first in the
\* timestamp, the source, the math flag or the score, or in nothing the sort
\* key has
RankPool ==
    {Candidate("A", "arxiv.org/1", "", F0_9, 2, TRUE),
     Candidate("B", "arxiv.org/2", "", F0_9, 1, TRUE),
     Candidate("C", "x.com/3", "", F0_9, 2, TRUE),
     Candidate("D", "arxiv.org/4", "", F0_9, 2, FALSE),
     Candidate("E", "arxiv.org/5", "", F0_6, 2, TRUE),
     Candidate("F", "arxiv.org/6", "", F0_3, 2, TRUE),
     Candidate("G", "arxiv.org/7", "", F0_9, 2, TRUE),
     Candidate("H", "arxiv.org/8", "", F1_1, 2, TRUE)}

\* the candidate supply constructs a SearchResult and the caller appends it;
\* the list is complete before the engine is first called
Construct(c, maxlen) ==
    /\ call.op \in {"none", "construct"}
    /\ Len(results) < maxlen
    /\ IF PostInitOk(c)
       THEN /\ heap' = Append(heap, c)
            /\ results' = Append(results, Len(heap) + 1)
            /\ ret' = NoRet
       ELSE /\ ret' = [kind |-> "ValueError", list |-> <<>>, val |-> FZero,
                       metrics |-> <<>>]
            /\ UNCHANGED <<heap, results>>
    /\ call' = [op |-> "construct", query |-> "", index |-> 0]
    /\ UNCHANGED <<boosts, tables, callers>>

\* calculate_relevance(query, results[i])
CalculateRelevance(query, i) ==
    /\ i \in 1..Len(results)
    /\ \E r \in calculate_relevance(query, heap[results[i]]) :
            ret' = [kind |-> "float", list |-> <<>>, val |-> r, metrics |-> <<>>]
    /\ call' = [op |-> "calculate_relevance", query |-> query, index |-> i]
    /\ UNCHANGED <<heap, results, boosts, tables, callers>>

\* apply_math_domain_boost(results)
ApplyBoost(maxboosts) ==
    /\ boosts < maxboosts
    /\ \E out \in {apply_math_domain_boost(heap, results)} :
            /\ heap' = out.heap
            /\ ret' = [kind |-> "list", list |-> out.list, val |-> FZero, metrics |-> <<>>]
    /\ call' = [op |-> "apply_math_domain_boost", query |-> "", index |-> 0]
    /\ boosts' = boosts + 1
    /\ UNCHANGED <<results, tables, callers>>

\* rank_results(results)
RankResults ==
    /\ ret' = [kind |-> "list", list |-> rank_results(heap, results), val |-> FZero,
               metrics |-> <<>>]
    /\ call' = [op |-> "rank_results", query |-> "", index |-> 0]
    /\ UNCHANGED <<heap, results, boosts, tables, callers>>

\* get_advanced_sorting_metrics(results)
GetMetrics ==
    /\ ret' = [kind |-> "metrics", list |-> <<>>, val |-> FZero,
               metrics |-> get_advanced_sorting_metrics(heap, results)]
    /\ call' = [op |-> "get_advanced_sorting_metrics", query |-> "", index |-> 0]
    /\ UNCHANGED <<heap, results, boosts, tables, callers>>

\* the caller continues with the list the last call returned
Adopt ==
    /\ ret.kind = "list"
    /\ results' = ret.list
    /\ ret' = NoRet
    /\ call' = [op |-> "adopt", query |-> "", index |-> 0]
    /\ UNCHANGED <<heap, boosts, tables, callers>>

\* the most processes that call the engine side by side
MaxProcesses == 2

Processes == 1..MaxProcesses

\* RelevanceCalculator.__init__: the three static tables
InitTables ==
    [stop_words         |-> stop_words,
     math_terms_weights |-> math_terms_weights,
     academic_sources   |-> academic_sources]

Init ==
    /\ heap = <<>>
    /\ results = <<>>
    /\ call = NoCall
    /\ ret = NoRet
    /\ boosts = 0
    /\ tables = InitTables
    /\ callers = [p \in Processes |-> {}]

\* the main runs: boost, ranking and metrics on lists of up to MaxLen
\* candidates
Next ==
    \/ \E c \in Pool : Construct(c, MaxLen)
    \/ ApplyBoost(MaxBoosts)
    \/ RankResults
    \/ GetMetrics
    \/ Adopt

Spec == Init /\ [][Next]_vars

\* the runs of the two scoring stages: base relevance and boost
NextStages ==
    \/ \E c \in StagePool : Construct(c, MaxLen)
    \/ \E q \in StageQueries, i \in 1..MaxLen : CalculateRelevance(q, i)
    \/ ApplyBoost(MaxBoosts)

SpecStages == Init /\ [][NextStages]_vars

\* the relevance runs: base relevance of many pairs of a query and a candidate
NextRel ==
    \/ \E c \in RelPool : Construct(c, MaxRelLen)
    \/ \E q \in RelQueries, i \in 1..MaxRelLen : CalculateRelevance(q, i)

SpecRel == Init /\ [][NextRel]_vars

\* the ranking runs: rank_results on lists with ties in every part of the key
NextRank ==
    \/ \E c \in RankPool : Construct(c, MaxRankLen)
    \/ RankResults
    \/ Adopt

SpecRank == Init /\ [][NextRank]_vars

\* the longest list of the factor runs
MaxFactorLen == 2

\* the candidates of the factor runs: texts with the academic indicators of
\* weight below 1.0 alone and next to others, with and without an education
\* marker in the url; texts that reach the caps of the factors; two
\* candidates with a math term in the snippet next to the same candidates
\* without it; one with no math content at all
FactorPool ==
    {Candidate("Elementary", "x.com/1", "", F0_3, 1, TRUE),
     Candidate("Basic", "x.com/2", "", F0_3, 1, TRUE),
     Candidate("Basic elementary tutorial", "x.com/3", "", F0_3, 1, FALSE),
     Candidate("Basic", "x.edu/4", "", F0_3, 1, TRUE),
     Candidate("PhD journal research", "university.org/5", "professor paper",
               F0_05, 1, FALSE),
     Candidate("Conjecture", "x.com/6", "statistics", F0_3, 1, TRUE),
     Candidate("Conjecture", "x.com/6", "", F0_3, 1, TRUE),
     Candidate("Notes", "x.com/7", "topology paper", F0_05, 1, TRUE),
     Candidate("Notes", "x.com/7", "paper", F0_05, 1, TRUE),
     Candidate("Manifold homomorphism category theory topology", "arxiv.org/abs/8",
               "isomorphism measure theory ~$", F0_05, 1, TRUE),
     Candidate("Cooking", "https://unknown-site.com", "cooking recipes", F0_3, 1, FALSE)}

\* the factor runs: boost and metrics on lists of up to MaxFactorLen candidates
NextFactors ==
    \/ \E c \in FactorPool : Construct(c, MaxFactorLen)
    \/ ApplyBoost(MaxBoosts)
    \/ GetMetrics

SpecFactors == Init /\ [][NextFactors]_vars

\* the longest list of the construction runs
MaxConstructLen == 2

\* the arguments of the construction runs: empty and non-empty titles and
\* urls, and scores inside, on the bounds of and outside [0, 1]
ConstructPool ==
    {Candidate(t, u, "", s, 1, FALSE) :
        t \in {"", "T", "U"}, u \in {"", "x.com/1", "x.com/2"},
        s \in {FZero, F0_05, F1_0, F1_1}}

\* SearchResult(...) with the score c.relevance_score, or -c.relevance_score
\* when `negative`; the caller appends the candidate
ConstructSigned(c, negative, maxlen) ==
    /\ call.op \in {"none", "construct"}
    /\ Len(results) < maxlen
    /\ negative => ~IsZero(c.relevance_score)
    /\ IF PostInitSigned(c, negative)
       THEN /\ heap' = Append(heap, c)
            /\ results' = Append(results, Len(heap) + 1)
            /\ ret' = NoRet
       ELSE /\ ret' = [kind |-> "ValueError", list |-> <<>>, val |-> FZero,
                       metrics |-> <<>>]
            /\ UNCHANGED <<heap, results>>
    /\ call' = [op |-> "construct", query |-> "", index |-> 0]
    /\ UNCHANGED <<boosts, tables, callers>>

\* the construction runs: candidates are built from any arguments and ranked
NextConstruct ==
    \/ \E c \in ConstructPool, negative \in BOOLEAN :
            ConstructSigned(c, negative, MaxConstructLen)
    \/ RankResults

SpecConstruct == Init /\ [][NextConstruct]_vars

\* the longest list of the demo runs
MaxDemoLen == 1

\* the query of the demo
QueryA == "linear algebra eigenvalues"

\* create_demo_results: the candidates of the demo, built with score 0.0
DemoPool ==
    {Candidate("Introduction to Linear Algebra", "https://khanacademy.org/math/linear-algebra",
               "Learn basic linear algebra concepts including vectors and matrices",
               FZero, 1, TRUE),
     Candidate("Advanced Manifold Theory and Topology", "https://arxiv.org/abs/2023.12345",
               "Research paper on manifold topology, homomorphism, and differential geometry",
               FZero, 1, TRUE),
     Candidate("Linear Algebra Course - MIT OpenCourseWare",
               "https://mit.edu/courses/18-06-linear-algebra",
               "Graduate level course covering eigenvalues, eigenvectors, and matrix theory",
               FZero, 1, TRUE),
     Candidate("Cooking Recipes for Beginners", "https://example.com/cooking",
               "Simple cooking recipes and kitchen tips for beginners",
               FZero, 1, FALSE),
     Candidate("Journal of Mathematical Analysis", "https://elsevier.com/journal/jmaa",
               "Research articles on functional analysis, differential equations, and theorem proofs",
               FZero, 1, TRUE)}

\* the queries of the demo
DemoQueries ==
    {QueryA, "linear algebra", "manifold topology", "cooking recipes",
     "differential equations", "eigenvalues eigenvectors"}

\* result.relevance_score = score: the caller writes the relevance it was
\* returned into the candidate
WriteBack ==
    /\ call.op = "calculate_relevance"
    /\ heap' = [heap EXCEPT ![results[call.index]].relevance_score = ret.val]
    /\ ret' = NoRet
    /\ call' = [op |-> "write_back", query |-> call.query, index |-> call.index]
    /\ UNCHANGED <<results, boosts, tables, callers>>

\* the demo runs: each candidate is built, scored for a query, given the
\* score, and the list is boosted and ranked; the metrics are taken of the
\* list that holds the written scores
NextDemo ==
    \/ \E c \in DemoPool : Construct(c, MaxDemoLen)
    \/ \E q \in DemoQueries, i \in 1..MaxDemoLen :
            call.op = "construct" /\ ret = NoRet /\ CalculateRelevance(q, i)
    \/ WriteBack
    \/ call.op = "write_back" /\ ApplyBoost(MaxBoosts)
    \/ call.op = "write_back" /\ GetMetrics
    \/ call.op = "apply_math_domain_boost" /\ Adopt
    \/ call.op = "adopt" /\ RankResults

SpecDemo == Init /\ [][NextDemo]_vars

\* the longest list of the source runs
MaxSourceLen == 2

\* the candidates of the source runs: one text under urls of listed sources
\* (one domain, a domain inside a longer listed one, two listed domains, in
\* capitals) and of sources that are not listed, with and without an
\* education marker; and scores at which the boost is 0.0 or is clamped
SourcePool ==
    {Candidate("Basic", u, "", F0_3, 1, TRUE) :
        u \in {"https://arxiv.org/abs/1", "https://ocw.mit.edu/1",
               "https://en.wikipedia.org/wiki/1", "https://unknown-site.com",
               "https://mathscinet.ams.org/1", "https://www.ams.org/1",
               "https://mathoverflow.net/search?q=arxiv.org",
               "HTTPS://ARXIV.ORG/ABS/1", "https://www.x-university.edu/1"}}
    \cup {Candidate("Basic", u, "", sc, 1, TRUE) :
            u \in {"https://en.wikipedia.org/wiki/1", "https://www.x-university.edu/1"},
            sc \in {FZero, F0_95}}

\* the source runs: boost and metrics on lists of up to MaxSourceLen candidates
NextSource ==
    \/ \E c \in SourcePool : Construct(c, MaxSourceLen)
    \/ ApplyBoost(MaxBoosts)
    \/ GetMetrics

SpecSource == Init /\ [][NextSource]_vars

\* the longest list of the helper runs
MaxPartsLen == 1

\* the texts the tokenizer is called with: the texts of its tests, the empty
\* text, whitespace only (every whitespace character occurs in some text),
\* and texts with underscores
TokenTexts ==
    {"", "Hello, world! This is a test.", "f(x) = x^2 + 2x - 1", " \t\n",
     "x_1", "a_b c-d", "_", "ab", "ab  c", "\r\f"}

\* the candidates and the queries of the helper runs: texts that share all,
\* some or none of their words with a query, texts with multi-word math
\* terms, and texts without content words or without tokens
PartsPool ==
    {Candidate(d[1], "x.com/1", d[2], F0_3, 1, TRUE) :
        d \in {<<"Group group ring theory", "">>, <<"Category theory", "">>,
               <<"Linear algebra", "matrix theory">>, <<"Topology", "">>,
               <<"The", "a">>, <<"?!", "">>, <<"Cooking recipes", "">>,
               <<"x_1 proof", "">>, <<"Manifold", "theory of it">>}}

PartsQueries ==
    {"group group ring theory", "category theory notes", "linear algebra",
     "topology", "", "the", "?!", "cooking recipes", "x_1", "manifold theory"}

\* _tokenize_text(text)
TokenizeText(text) ==
    /\ ret' = [kind |-> "words", list |-> tokenize_text(text), val |-> FZero,
               metrics |-> <<>>]
    /\ call' = [op |-> "tokenize_text", query |-> text, index |-> 0]
    /\ UNCHANGED <<heap, results, boosts, tables, callers>>

\* _calculate_tfidf_similarity(query, results[i])
TfidfSimilarity(query, i) ==
    /\ i \in 1..Len(results)
    /\ \E r \in calculate_tfidf_similarity(query, heap[results[i]]) :
            ret' = [kind |-> "float", list |-> <<>>, val |-> r, metrics |-> <<>>]
    /\ call' = [op |-> "calculate_tfidf_similarity", query |-> query, index |-> i]
    /\ UNCHANGED <<heap, results, boosts, tables, callers>>

\* _calculate_tfidf_similarity(query, results[i]) when the computation of
\* _custom_tfidf_similarity fails (for strings it raises by no fault of the
\* input, only when the computation itself cannot be done)
TfidfSimilarityExcept(query, i) ==
    /\ i \in 1..Len(results)
    /\ ret' = [kind |-> "float", list |-> <<>>,
               val |-> tfidf_similarity_except(query, heap[results[i]]),
               metrics |-> <<>>]
    /\ call' = [op |-> "calculate_tfidf_similarity_except", query |-> query,
                index |-> i]
    /\ UNCHANGED <<heap, results, boosts, tables, callers>>

\* _calculate_word_overlap(query, f"{title} {snippet}") of results[i]
WordOverlap(query, i) ==
    /\ i \in 1..Len(results)
    /\ ret' = [kind |-> "float", list |-> <<>>,
               val |-> calculate_word_overlap(query, TitleSnippet(heap[results[i]])),
               metrics |-> <<>>]
    /\ call' = [op |-> "calculate_word_overlap", query |-> query, index |-> i]
    /\ UNCHANGED <<heap, results, boosts, tables, callers>>

\* _calculate_keyword_matching(query, results[i])
KeywordMatching(query, i) ==
    /\ i \in 1..Len(results)
    /\ \E r \in calculate_keyword_matching(query, heap[results[i]]) :
            ret' = [kind |-> "float", list |-> <<>>, val |-> r, metrics |-> <<>>]
    /\ call' = [op |-> "calculate_keyword_matching", query |-> query, index |-> i]
    /\ UNCHANGED <<heap, results, boosts, tables, callers>>

\* _calculate_title_boost(query, results[i].title)
TitleBoost(query, i) ==
    /\ i \in 1..Len(results)
    /\ ret' = [kind |-> "float", list |-> <<>>,
               val |-> calculate_title_boost(query, heap[results[i]].title),
               metrics |-> <<>>]
    /\ call' = [op |-> "calculate_title_boost", query |-> query, index |-> i]
    /\ UNCHANGED <<heap, results, boosts, tables, callers>>

\* the helper runs: a candidate is built and one helper of
\* calculate_relevance is called, as each unit test does
NextParts ==
    \/ \E c \in PartsPool : Construct(c, MaxPartsLen)
    \/ call.op \in {"none", "construct"} /\ \E t \in TokenTexts : TokenizeText(t)
    \/ call.op = "construct" /\ \E q \in PartsQueries : TfidfSimilarity(q, 1)
    \/ call.op = "construct" /\ \E q \in PartsQueries : TfidfSimilarityExcept(q, 1)
    \/ call.op = "construct" /\ \E q \in PartsQueries : WordOverlap(q, 1)
    \/ call.op = "construct" /\ \E q \in PartsQueries : KeywordMatching(q, 1)
    \/ call.op = "construct" /\ \E q \in PartsQueries : TitleBoost(q, 1)

SpecParts == Init /\ [][NextParts]_vars

\* the longest list of the runs with several processes
MaxCallersLen == 1

\* the most boost calls in one run with several processes
MaxCallerBoosts == 1

\* the most distinct calls one process makes in a run
MaxCallerCalls == 2

\* the candidates and the query of the runs with several processes: a
\* candidate whose tf-idf sums with the query depend on the order in which
\* the set of all words is iterated, and a candidate with one word
CallersPool ==
    {Candidate("notes linear", "x.com/1", "notes matrix vectors", F0_3, 1, FALSE),
     Candidate("Topology", "arxiv.org/1", "", F0_3, 1, TRUE)}

CallersQueries == {"matrix matrix theory"}

\* what a call returned, by value: a float, a list of references with the
\* candidates they refer to, or a list of metrics records
Out(val, list, objects, metrics) ==
    [val |-> val, list |-> list, objects |-> objects, metrics |-> metrics]

\* process p has been returned `out` by the call op(query, results[index])
Returned(p, op, query, index, out) ==
    callers' = [callers EXCEPT ![p] =
                    @ \cup {[op |-> op, query |-> query, index |-> index, out |-> out]}]

\* what process p was returned by the same call earlier
Earlier(p, op, query, index) ==
    {e.out : e \in {x \in callers[p] :
                        x.op = op /\ x.query = query /\ x.index = index}}

\* calculate_relevance(query, results[i]) called in process p.  The hash seed
\* of a process fixes the order in which its sets of str are iterated, so a
\* call the process repeats returns what it returned before; another process
\* has another seed and may iterate in any other order
CallerRelevance(p, query, i) ==
    /\ Cardinality(callers[p]) < MaxCallerCalls
    /\ i \in 1..Len(results)
    /\ \E r \in (IF Earlier(p, "calculate_relevance", query, i) = {}
                 THEN calculate_relevance(query, heap[results[i]])
                 ELSE {o.val : o \in Earlier(p, "calculate_relevance", query, i)}) :
            /\ ret' = [kind |-> "float", list |-> <<>>, val |-> r, metrics |-> <<>>]
            /\ Returned(p, "calculate_relevance", query, i, Out(r, <<>>, <<>>, <<>>))
    /\ call' = [op |-> "calculate_relevance", query |-> query, index |-> i]
    /\ UNCHANGED <<heap, results, boosts, tables>>

\* apply_math_domain_boost(results) called in process p; the new candidates
\* are recorded by value
CallerBoost(p, maxboosts) ==
    /\ Cardinality(callers[p]) < MaxCallerCalls
    /\ boosts < maxboosts
    /\ \E out \in {apply_math_domain_boost(heap, results)} :
            /\ heap' = out.heap
            /\ ret' = [kind |-> "list", list |-> out.list, val |-> FZero, metrics |-> <<>>]
            /\ Returned(p, "apply_math_domain_boost", "", 0,
                        Out(FZero, <<>>,
                            <<>> \o [k \in 1..Len(out.list) |-> out.heap[out.list[k]]],
                            <<>>))
    /\ call' = [op |-> "apply_math_domain_boost", query |-> "", index |-> 0]
    /\ boosts' = boosts + 1
    /\ UNCHANGED <<results, tables>>

\* rank_results(results) called in process p
CallerRank(p) ==
    /\ Cardinality(callers[p]) < MaxCallerCalls
    /\ ret' = [kind |-> "list", list |-> rank_results(heap, results), val |-> FZero,
               metrics |-> <<>>]
    /\ Returned(p, "rank_results", "", 0,
                Out(FZero, rank_results(heap, results),
                    <<>> \o [k \in 1..Len(results) |->
                                heap[rank_results(heap, results)[k]]],
                    <<>>))
    /\ call' = [op |-> "rank_results", query |-> "", index |-> 0]
    /\ UNCHANGED <<heap, results, boosts, tables>>

\* get_advanced_sorting_metrics(results) called in process p
CallerMetrics(p) ==
    /\ Cardinality(callers[p]) < MaxCallerCalls
    /\ ret' = [kind |-> "metrics", list |-> <<>>, val |-> FZero,
               metrics |-> get_advanced_sorting_metrics(heap, results)]
    /\ Returned(p, "get_advanced_sorting_metrics", "", 0,
                Out(FZero, <<>>, <<>>, get_advanced_sorting_metrics(heap, results)))
    /\ call' = [op |-> "get_advanced_sorting_metrics", query |-> "", index |-> 0]
    /\ UNCHANGED <<heap, results, boosts, tables>>

\* the runs with several processes: the list is built, then the processes
\* call the four operations on it in any order
NextCallers ==
    \/ \E c \in CallersPool : Construct(c, MaxCallersLen)
    \/ \E p \in Processes, q \in CallersQueries : CallerRelevance(p, q, 1)
    \/ \E p \in Processes : CallerBoost(p, MaxCallerBoosts)
    \/ \E p \in Processes : CallerRank(p)
    \/ \E p \in Processes : CallerMetrics(p)

SpecCallers == Init /\ [][NextCallers]_vars

(***************************************************************************)
(* Properties.                                                             *)
(***************************************************************************)
\* 0.0 <= s <= 1.0
InRange(s) == FLe(FZero, s) /\ FLe(s, F1_0)

\* a and b agree on every field but relevance_score
SameButScore(a, b) ==
    /\ a.title = b.title /\ a.url = b.url /\ a.snippet = b.snippet
    /\ a.source = b.source /\ a.timestamp = b.timestamp
    /\ a.math_content_detected = b.math_content_detected

\* the objects of the heap h are in the heap g, unchanged
SameObjects(h, g) == Len(g) >= Len(h) /\ \A r \in 1..Len(h) : g[r] = h[r]

\* the number of times the reference r occurs in list
RefCount(list, r) == Cardinality({i \in 1..Len(list) : list[i] = r})

\* C1: after any sequence of boost calls, each applied to the output of the
\* one before, every candidate of the list a boost call returns has a
\* relevance_score in [0, 1].
C1_BoostedScoresInRange ==
    call.op = "apply_math_domain_boost" =>
        \A i \in 1..Len(ret.list) : InRange(heap[ret.list[i]].relevance_score)

\* a second boost call on the output of the first returned a candidate at
\* exactly 1.0 and one below it
C1_Witness ==
    /\ call.op = "apply_math_domain_boost" /\ boosts >= 2
    /\ \A i \in 1..Len(results) : results[i] > Len(results)
    /\ \E i, j \in 1..Len(ret.list) :
            /\ heap[ret.list[i]].relevance_score = F1_0
            /\ FLt(heap[ret.list[j]].relevance_score, F1_0)
            /\ FLt(heap[results[j]].relevance_score, heap[ret.list[j]].relevance_score)

\* C2: for every query and every valid candidate, calculate_relevance returns
\* a value in [0, 1].
C2_RelevanceInRange == call.op = "calculate_relevance" => InRange(ret.val)

\* a call whose product of base score and boosts exceeds 1 returned exactly 1.0
C2_Witness ==
    /\ call.op = "calculate_relevance" /\ ret.val = F1_0
    /\ heap[results[call.index]].math_content_detected

\* C3: the list apply_math_domain_boost returns has the length of its input,
\* and its candidate at every index has the url of the input candidate at that
\* index.
C3_BoostKeepsOrder ==
    [][call'.op = "apply_math_domain_boost" =>
          /\ Len(ret'.list) = Len(results)
          /\ \A i \in 1..Len(results) :
                heap'[ret'.list[i]].url = heap[results[i]].url]_vars

\* a boost call returned two candidates with different urls
C3_Witness ==
    /\ call.op = "apply_math_domain_boost" /\ Len(ret.list) = 2
    /\ heap[ret.list[1]].url # heap[ret.list[2]].url

\* C4: calculate_relevance leaves the candidate and the list unchanged;
\* apply_math_domain_boost leaves the input list and every input candidate
\* unchanged, and each candidate it returns equals its input in every field
\* but relevance_score.
C4_StagesKeepInputs ==
    [][/\ call'.op = "calculate_relevance" => heap' = heap /\ results' = results
       /\ call'.op = "apply_math_domain_boost" =>
            /\ results' = results
            /\ SameObjects(heap, heap')
            /\ \A i \in 1..Len(results) :
                    SameButScore(heap'[ret'.list[i]], heap[results[i]])]_vars

\* a boost call returned a candidate whose score differs from its input's
C4_Witness ==
    /\ call.op = "apply_math_domain_boost" /\ Len(results) = 2
    /\ heap[ret.list[1]].relevance_score # heap[results[1]].relevance_score

\* the product of the six factors of one candidate: source, math content, math
\* terms, domain depth, complexity, academic level
SixFactors(result) ==
    FMul(FMul(FMul(FMul(FMul(get_source_boost(result.url),
                             IF result.math_content_detected THEN F1_15 ELSE F1_0),
                        get_math_terms_boost(TitleSnippet(result))),
                   get_math_domain_depth_boost(TitleSnippet(result))),
              calculate_mathematical_complexity_score(TitleSnippet(result))),
         get_academic_level_boost(result))

\* C5: the score apply_math_domain_boost writes for a candidate is
\* min(original_score * total_boost, 1.0), total_boost being the product of
\* the six factors of that candidate alone; it is exactly 1.0 whenever
\* original_score * total_boost >= 1.
C5_BoostedScoreFormula ==
    [][call'.op = "apply_math_domain_boost" =>
          \A i \in 1..Len(results) :
              /\ heap'[ret'.list[i]].relevance_score =
                    FMin(FMul(heap[results[i]].relevance_score,
                              SixFactors(heap[results[i]])), F1_0)
              /\ FLe(F1_0, FMul(heap[results[i]].relevance_score,
                                SixFactors(heap[results[i]])))
                    => heap'[ret'.list[i]].relevance_score = F1_0]_vars

\* the candidate of score 0.95 from arXiv with the math flag and a text with
\* manifold, homomorphism and category theory was boosted to exactly 1.0, next
\* to a candidate that stayed below 1.0
C5_Witness ==
    /\ call.op = "apply_math_domain_boost" /\ Len(results) = 2
    /\ heap[results[1]] = Candidate("Manifold homomorphism category theory",
                                    "arxiv.org/abs/1", "", F0_95, 3, TRUE)
    /\ heap[ret.list[1]].relevance_score = F1_0
    /\ FLt(heap[ret.list[2]].relevance_score, F1_0)

\* the sort key of element i of a list of references
KeyAt(list, i) == rank_key(heap[list[i]])

\* C6: in the list rank_results returns, the key (relevance_score, math flag
\* as 1/0, source boost of the url, timestamp) of each element is
\* lexicographically >= the key of every later element; so scores do not
\* increase, and equal scores are ordered by math flag, then source boost,
\* then more recent timestamp.
C6_RankedKeysDescend ==
    call.op = "rank_results" =>
        \A i, j \in 1..Len(ret.list) :
            i < j =>
                /\ ~key_less(KeyAt(ret.list, i), KeyAt(ret.list, j))
                /\ FLe(heap[ret.list[j]].relevance_score,
                       heap[ret.list[i]].relevance_score)

\* rank_results moved a candidate in front of one that differs only by an
\* older timestamp, and returned three candidates of three different scores
C6_Witness ==
    /\ call.op = "rank_results" /\ Len(ret.list) = 3 /\ ret.list # results
    /\ \/ /\ FLt(heap[ret.list[2]].relevance_score, heap[ret.list[1]].relevance_score)
          /\ FLt(heap[ret.list[3]].relevance_score, heap[ret.list[2]].relevance_score)
       \/ /\ KeyAt(ret.list, 1)[1] = KeyAt(ret.list, 2)[1]
          /\ KeyAt(ret.list, 1)[2] = KeyAt(ret.list, 2)[2]
          /\ KeyAt(ret.list, 1)[3] = KeyAt(ret.list, 2)[3]
          /\ KeyAt(ret.list, 1)[4] > KeyAt(ret.list, 2)[4]
          /\ ret.list[1] > ret.list[2]

\* C7: rank_results returns a permutation of its input (every candidate as
\* many times as in the input), changes no field of any candidate, and leaves
\* the input list as it was.
C7_RankPermutes ==
    [][call'.op = "rank_results" =>
          /\ results' = results
          /\ heap' = heap
          /\ Len(ret'.list) = Len(results)
          /\ \A r \in 1..Len(heap) : RefCount(ret'.list, r) = RefCount(results, r)]_vars

\* rank_results returned three candidates in another order than the input's
C7_Witness ==
    /\ call.op = "rank_results" /\ Len(ret.list) = 3
    /\ ret.list[1] # results[1] /\ ret.list[3] # results[3]

\* C8: get_advanced_sorting_metrics returns one record per input candidate, in
\* input order (record i has the url and the base_relevance of candidate i),
\* and modifies neither the input list nor any candidate.
C8_MetricsPerInput ==
    [][call'.op = "get_advanced_sorting_metrics" =>
          /\ results' = results
          /\ heap' = heap
          /\ Len(ret'.metrics) = Len(results)
          /\ \A i \in 1..Len(results) :
                /\ ret'.metrics[i].url = heap[results[i]].url
                /\ ret'.metrics[i].base_relevance = heap[results[i]].relevance_score]_vars

\* metrics of two candidates, the one of lower score first
C8_Witness ==
    /\ call.op = "get_advanced_sorting_metrics" /\ Len(ret.metrics) = 2
    /\ FLt(ret.metrics[1].base_relevance, ret.metrics[2].base_relevance)
    /\ ret.metrics[1].url # ret.metrics[2].url

\* the score apply_math_domain_boost gives element i of the caller's list
BoostedScoreAt(i) ==
    apply_math_domain_boost(heap, results).heap[
        apply_math_domain_boost(heap, results).list[i]].relevance_score

\* C9: the final_score of metrics record i is min(base_relevance *
\* total_boost, 1.0) and equals the relevance_score of element i of
\* apply_math_domain_boost on the same list.
C9_MetricsReplaysBoost ==
    call.op = "get_advanced_sorting_metrics" =>
        \A i \in 1..Len(results) :
            /\ ret.metrics[i].final_score =
                  FMin(FMul(ret.metrics[i].base_relevance, ret.metrics[i].total_boost), F1_0)
            /\ ret.metrics[i].final_score = BoostedScoreAt(i)

\* the eleven entries of a metrics record
MetricKeys ==
    {"base_relevance", "source_boost", "math_terms_boost", "domain_depth_boost",
     "complexity_boost", "academic_level_boost", "math_content_detected", "url",
     "title", "total_boost", "final_score"}

\* C10 (as the code has it): every metrics record has five boost factors as
\* entries of their own (source_boost, math_terms_boost, domain_depth_boost,
\* complexity_boost, academic_level_boost), the boolean math_content_detected
\* in the place of a math content factor, and base_relevance, total_boost,
\* final_score, title and url; the factors are those of the boost engine.
C10_MetricsRecordEntries ==
    call.op = "get_advanced_sorting_metrics" =>
        \A i \in 1..Len(ret.metrics) :
            /\ DOMAIN ret.metrics[i] = MetricKeys
            /\ ret.metrics[i].math_content_detected \in BOOLEAN
            /\ ret.metrics[i].source_boost = get_source_boost(heap[results[i]].url)
            /\ ret.metrics[i].academic_level_boost = get_academic_level_boost(heap[results[i]])

\* metrics of two candidates were returned
C10_Witness ==
    /\ call.op = "get_advanced_sorting_metrics" /\ Len(ret.metrics) = 2
    /\ ret.metrics[1].math_content_detected

\* C10 (as stated): every metrics record has an entry of its own for each of
\* the six boost factors, math_content_boost among them.
C10_SixFactorEntries ==
    call.op = "get_advanced_sorting_metrics" =>
        \A i \in 1..Len(ret.metrics) :
            {"source_boost", "math_content_boost", "math_terms_boost",
             "domain_depth_boost", "complexity_boost", "academic_level_boost",
             "base_relevance", "total_boost", "final_score", "title", "url"}
                \subseteq DOMAIN ret.metrics[i]

\* the product of the five factors a metrics record lists, in the order of
\* the record: source, math terms, domain depth, complexity, academic level
FiveFactors(result) ==
    FMul(FMul(FMul(FMul(get_source_boost(result.url),
                        get_math_terms_boost(TitleSnippet(result))),
                   get_math_domain_depth_boost(TitleSnippet(result))),
              calculate_mathematical_complexity_score(TitleSnippet(result))),
         get_academic_level_boost(result))

\* the math content factor: 1.15 for a flagged candidate, else 1.0
MathContentFactor(result) == IF result.math_content_detected THEN F1_15 ELSE F1_0

\* C11 (as the code has it): in every metrics record, total_boost is the
\* product of the five factors the record lists (source, math terms, domain
\* depth, complexity, academic level) times the math content factor (1.15 if
\* math_content_detected, else 1.0): the math content factor is counted once.
C11_TotalBoostCountsOnce ==
    call.op = "get_advanced_sorting_metrics" =>
        \A i \in 1..Len(results) :
            ret.metrics[i].total_boost =
                FMul(FiveFactors(heap[results[i]]), MathContentFactor(heap[results[i]]))

\* metrics of a flagged candidate and of one that is not flagged
C11_Witness ==
    /\ call.op = "get_advanced_sorting_metrics" /\ Len(ret.metrics) = 2
    /\ ret.metrics[1].math_content_detected
    /\ ~ret.metrics[2].math_content_detected
    /\ FLt(F1_0, ret.metrics[1].total_boost)

\* C11 (as stated): in every metrics record, total_boost is the product of
\* the six boost factors of the boost engine times the math content factor,
\* which a flagged candidate so gets twice.
C11_TotalBoostCountsTwice ==
    call.op = "get_advanced_sorting_metrics" =>
        \A i \in 1..Len(results) :
            ret.metrics[i].total_boost =
                FMul(SixFactors(heap[results[i]]), MathContentFactor(heap[results[i]]))

\* C13: on an empty list, apply_math_domain_boost, rank_results and
\* get_advanced_sorting_metrics each return an empty list and raise nothing.
C13_EmptyListsStayEmpty ==
    /\ call.op \in {"apply_math_domain_boost", "rank_results"} /\ results = <<>>
            => ret.kind = "list" /\ ret.list = <<>>
    /\ call.op = "get_advanced_sorting_metrics" /\ results = <<>>
            => ret.kind = "metrics" /\ ret.metrics = <<>>

\* metrics of the empty list, after a boost of the empty list
C13_Witness ==
    /\ call.op = "get_advanced_sorting_metrics" /\ results = <<>> /\ boosts >= 1
    /\ ret.metrics = <<>>

\* the candidate that differs from c in math_content_detected only
FlagTwin(c) == [c EXCEPT !.math_content_detected = ~c.math_content_detected]

\* C14: for every query and every two candidates that differ in
\* math_content_detected only, calculate_relevance of the flagged one is >=
\* that of the other.
C14_MathContentMonotone ==
    call.op = "calculate_relevance" =>
        \A r \in calculate_relevance(call.query, FlagTwin(heap[results[call.index]])) :
            IF heap[results[call.index]].math_content_detected
            THEN FLe(r, ret.val)
            ELSE FLe(ret.val, r)

\* a flagged candidate got a relevance strictly above its unflagged twin's
C14_Witness ==
    /\ call.op = "calculate_relevance"
    /\ heap[results[call.index]].math_content_detected
    /\ \E r \in calculate_relevance(call.query, FlagTwin(heap[results[call.index]])) :
            FLt(r, ret.val)

\* snippets with recognized math terms, and the same snippets without them
StripPairs == {<<"statistics", "">>, <<"topology paper", "paper">>}

\* b is the candidate a with the math terms of its snippet removed
StrippedOf(a, b) ==
    /\ <<a.snippet, b.snippet>> \in StripPairs
    /\ b = [a EXCEPT !.snippet = b.snippet]

\* C15: the score apply_math_domain_boost gives a candidate whose snippet
\* has recognized math terms is >= the score it gives the same candidate
\* with those terms removed.
C15_MathTermsNeverLower ==
    call.op = "apply_math_domain_boost" =>
        \A i, j \in 1..Len(results) :
            StrippedOf(heap[results[i]], heap[results[j]]) =>
                FLe(heap[ret.list[j]].relevance_score, heap[ret.list[i]].relevance_score)

\* C16: the score apply_math_domain_boost returns for a candidate with
\* math_content_detected is >= the candidate's original score.
C16_FlaggedNeverLowered ==
    call.op = "apply_math_domain_boost" =>
        \A i \in 1..Len(results) :
            heap[results[i]].math_content_detected =>
                FLe(heap[results[i]].relevance_score, heap[ret.list[i]].relevance_score)

\* C17: constructing a SearchResult with an empty title, an empty url or a
\* score outside [0, 1] raises ValueError and yields no candidate; with a
\* non-empty title and url and a score in [0, 1], 0 and 1 included, it
\* succeeds.
C17_ConstructionValidates ==
    [][\A c \in ConstructPool, negative \in BOOLEAN :
          ConstructSigned(c, negative, MaxConstructLen) =>
              IF c.title = "" \/ c.url = "" \/ negative \/ FLt(F1_0, c.relevance_score)
              THEN /\ ret'.kind = "ValueError"
                   /\ heap' = heap /\ results' = results
              ELSE /\ ret'.kind # "ValueError"
                   /\ heap' = Append(heap, c)
                   /\ results' = Append(results, Len(heap) + 1)]_vars

\* a candidate of score 1.0 was constructed, and the next construction
\* raised ValueError
C17_Witness ==
    /\ Len(results) = 1 /\ heap[results[1]].relevance_score = F1_0
    /\ ret.kind = "ValueError"

\* C19: for every candidate, source_boost is in [1.0, 1.9],
\* math_content_boost is 1.15 when flagged and 1.0 otherwise, math_terms_boost
\* is in [1.0, 2.5], domain_depth_boost in [1.0, 1.8] and complexity_boost in
\* [1.0, 2.0].
C19_FactorsInRange ==
    \A i \in 1..Len(results) :
        /\ FLe(F1_0, boost_factors(heap[results[i]])[1])
        /\ FLe(boost_factors(heap[results[i]])[1], F1_9)
        /\ boost_factors(heap[results[i]])[2] = MathContentFactor(heap[results[i]])
        /\ FLe(F1_0, boost_factors(heap[results[i]])[3])
        /\ FLe(boost_factors(heap[results[i]])[3], F2_5)
        /\ FLe(F1_0, boost_factors(heap[results[i]])[4])
        /\ FLe(boost_factors(heap[results[i]])[4], F1_8)
        /\ FLe(F1_0, boost_factors(heap[results[i]])[5])
        /\ FLe(boost_factors(heap[results[i]])[5], F2_0)

\* a boost of a candidate whose math terms and domain depth factors are at
\* their caps, next to a candidate all of whose factors are 1.0
C19_Witness ==
    /\ call.op = "apply_math_domain_boost" /\ Len(results) = 2
    /\ boost_factors(heap[results[1]])[3] = F2_5
    /\ boost_factors(heap[results[1]])[4] = F1_8
    /\ boost_factors(heap[results[1]])[1] = F1_9
    /\ total_boost(heap[results[2]]) = F1_0

\* the indicators of weight other than 1.0 found in the title and snippet of
\* c are 'basic' and/or 'elementary' and no others, and the url of c has no
\* education marker
OnlyLowIndicators(c) ==
    /\ {e[1] : e \in {f \in Range(Matched(academic_indicators, Lower(TitleSnippet(c)))) :
                        f[2] # F1_0}} \in {{"basic"}, {"elementary"}, {"basic", "elementary"}}
    /\ CountPresent(edu_domains, Lower(c.url)) = 0

\* C20: academic_level_boost is within [0.8, 1.6], and below 1.0 whenever
\* the only indicators of weight other than 1.0 in title and snippet are
\* 'basic' and/or 'elementary' and the url has no education marker.
C20_AcademicLevelRange ==
    \A i \in 1..Len(results) :
        /\ FLe(F0_8, get_academic_level_boost(heap[results[i]]))
        /\ FLe(get_academic_level_boost(heap[results[i]]), F1_6)
        /\ OnlyLowIndicators(heap[results[i]])
                => FLt(get_academic_level_boost(heap[results[i]]), F1_0)

\* a candidate with 'basic' and 'elementary' at the lower clamp next to one
\* at the upper clamp
C20_Witness ==
    /\ Len(results) = 2
    /\ OnlyLowIndicators(heap[results[1]])
    /\ get_academic_level_boost(heap[results[1]]) = F0_8
    /\ get_academic_level_boost(heap[results[2]]) = F1_6

\* 0.5 and the candidate of Scenario A as create_demo_results builds it: the
\* MIT course with its mit.edu url, its snippet on eigenvalues, eigenvectors
\* and matrix theory, and the math flag
F0_5 == [m |-> <<0, 0, 0, 1024>>, x |-> -53]

IsScenarioA(c) ==
    /\ c.title = "Linear Algebra Course - MIT OpenCourseWare"
    /\ c.url = "https://mit.edu/courses/18-06-linear-algebra"
    /\ c.snippet = "Graduate level course covering eigenvalues, eigenvectors, and matrix theory"
    /\ c.math_content_detected

\* the boost of the candidate of Scenario A that holds its relevance for the
\* query of Scenario A
BoostsScenarioA ==
    /\ call.op = "write_back" /\ call.query = QueryA
    /\ IsScenarioA(heap[results[call.index]])
    /\ call'.op = "apply_math_domain_boost"

\* C18 (as the code has it): in Scenario A, calculate_relevance is exactly
\* 1.0 (so > 0.5), source_boost is 1.8 (so >= 1.7), and the score after the
\* boost equals the score before it: both are 1.0, the clamp leaves the
\* boost nothing to add.
C18_ScenarioA ==
    [][BoostsScenarioA =>
          /\ heap[results[call.index]].relevance_score = F1_0
          /\ FLt(F0_5, heap[results[call.index]].relevance_score)
          /\ get_source_boost(heap[results[call.index]].url) = F1_8
          /\ FLe(F1_7, get_source_boost(heap[results[call.index]].url))
          /\ heap'[ret'.list[call.index]].relevance_score =
                heap[results[call.index]].relevance_score]_vars

\* the candidate of Scenario A, holding its relevance 1.0, was boosted
C18_Witness ==
    /\ call.op = "apply_math_domain_boost" /\ Len(results) = 1
    /\ IsScenarioA(heap[results[1]])
    /\ heap[results[1]].relevance_score = F1_0
    /\ heap[ret.list[1]].relevance_score = F1_0

\* C18 (as stated): in Scenario A, calculate_relevance is > 0.5, source_boost
\* is >= 1.7, and the score after the boost is strictly higher than the score
\* before it.
C18_ScenarioARises ==
    [][BoostsScenarioA =>
          /\ FLt(F0_5, heap[results[call.index]].relevance_score)
          /\ FLe(F1_7, get_source_boost(heap[results[call.index]].url))
          /\ FLt(heap[results[call.index]].relevance_score,
                 heap'[ret'.list[call.index]].relevance_score)]_vars

\* no key of the list occurs in the text
NoneOf(list, text) == CountPresent(list, text) = 0

\* the url of c has no domain of the authority table, and the title and
\* snippet of c have no math term, advanced concept or term, research
\* keyword, complexity term, math symbol, '$' or backslash
NeutralCandidate(c) ==
    /\ Matched(academic_sources, Lower(c.url)) = <<>>
    /\ Matched(math_terms_weights, Lower(TitleSnippet(c))) = <<>>
    /\ Matched(complexity_indicators, Lower(TitleSnippet(c))) = <<>>
    /\ NoneOf(advanced_concepts, Lower(TitleSnippet(c)))
    /\ NoneOf(advanced_terms, Lower(TitleSnippet(c)))
    /\ NoneOf(research_keywords, Lower(TitleSnippet(c)))
    /\ NoneOf(math_symbols, TitleSnippet(c))
    /\ ~Contains(TitleSnippet(c), "$") /\ ~Contains(TitleSnippet(c), "\\")

\* C21: for a candidate whose url has no domain of the authority table and
\* whose title and snippet have no math term, advanced concept, research
\* keyword, complexity term, math symbol, '$' or backslash, source_boost,
\* math_terms_boost, domain_depth_boost and complexity_boost are each 1.0.
C21_NeutralFactors ==
    \A i \in 1..Len(results) :
        NeutralCandidate(heap[results[i]]) =>
            /\ boost_factors(heap[results[i]])[1] = F1_0
            /\ boost_factors(heap[results[i]])[3] = F1_0
            /\ boost_factors(heap[results[i]])[4] = F1_0
            /\ boost_factors(heap[results[i]])[5] = F1_0

\* the candidate of Scenario B was boosted and its score is the one it had
C21_Witness ==
    /\ call.op = "apply_math_domain_boost" /\ Len(results) = 1
    /\ heap[results[1]].url = "https://unknown-site.com"
    /\ heap[results[1]].snippet = "cooking recipes"
    /\ ~heap[results[1]].math_content_detected
    /\ NeutralCandidate(heap[results[1]])
    /\ heap[ret.list[1]].relevance_score = heap[results[1]].relevance_score

\* the k-th domain of the authority table occurs in the lowercased url and
\* none before it in the table does
FirstDomain(url, k) ==
    /\ Contains(Lower(url), academic_sources[k][1])
    /\ \A j \in 1..(k - 1) : ~Contains(Lower(url), academic_sources[j][1])

\* C22 (as the code has it): source_boost(url) is the weight of the first
\* domain of the authority table, in the order of the table, that occurs as
\* a substring of the lowercased url, and 1.0 if no table domain occurs in it.
C22_FirstDomainInTable ==
    \A i \in 1..Len(results) :
        /\ \A k \in DOMAIN academic_sources :
                FirstDomain(heap[results[i]].url, k) =>
                    get_source_boost(heap[results[i]].url) = academic_sources[k][2]
        /\ (\A k \in DOMAIN academic_sources : ~FirstDomain(heap[results[i]].url, k))
                => get_source_boost(heap[results[i]].url) = F1_0

\* metrics of a url with two table domains, of which the shorter is first in
\* the table, next to a url with none
C22_Witness ==
    /\ call.op = "get_advanced_sorting_metrics" /\ Len(results) = 2
    /\ heap[results[1]].url = "https://mathoverflow.net/search?q=arxiv.org"
    /\ ret.metrics[1].source_boost = F1_9
    /\ heap[results[2]].url = "https://unknown-site.com"
    /\ ret.metrics[2].source_boost = F1_0

\* the table domains of the greatest length that occur in the lowercased url
LongestDomains(url) ==
    {e \in Range(Matched(academic_sources, Lower(url))) :
        \A f \in Range(Matched(academic_sources, Lower(url))) : Len(f[1]) <= Len(e[1])}

\* C22 (as stated): source_boost(url) is the weight of the longest domain of
\* the authority table that occurs as a substring of the lowercased url, and
\* 1.0 if no table domain occurs in it.
C22_LongestDomain ==
    \A i \in 1..Len(results) :
        IF LongestDomains(heap[results[i]].url) = {}
        THEN get_source_boost(heap[results[i]].url) = F1_0
        ELSE \E e \in LongestDomains(heap[results[i]].url) :
                get_source_boost(heap[results[i]].url) = e[2]

\* a and b are the same in every field but the url, the url of a has a
\* domain of the authority table and the url of b has none
RecognizedTwin(a, b) ==
    /\ a.url # b.url /\ b = [a EXCEPT !.url = b.url]
    /\ Matched(academic_sources, Lower(a.url)) # <<>>
    /\ Matched(academic_sources, Lower(b.url)) = <<>>

\* C23: of two candidates that differ in the url only, one with a domain of
\* the authority table and one without, the boosted score of the first is >=
\* that of the second, and strictly greater when the second's boosted score
\* is below 1.0 and the original score is positive, whichever of the urls
\* has an education marker.
C23_RecognizedNeverLoses ==
    call.op = "apply_math_domain_boost" =>
        \A i, j \in 1..Len(results) :
            RecognizedTwin(heap[results[i]], heap[results[j]]) =>
                /\ FLe(heap[ret.list[j]].relevance_score, heap[ret.list[i]].relevance_score)
                /\ (/\ FLt(heap[ret.list[j]].relevance_score, F1_0)
                    /\ ~IsZero(heap[results[j]].relevance_score))
                        => FLt(heap[ret.list[j]].relevance_score,
                               heap[ret.list[i]].relevance_score)

\* a boost of a url with a listed domain of the lowest weight and no
\* education marker, next to an unlisted url with an education marker
C23_Witness ==
    /\ call.op = "apply_math_domain_boost" /\ Len(results) = 2
    /\ RecognizedTwin(heap[results[1]], heap[results[2]])
    /\ get_source_boost(heap[results[1]].url) = F1_3
    /\ CountPresent(edu_domains, Lower(heap[results[1]].url)) = 0
    /\ CountPresent(edu_domains, Lower(heap[results[2]].url)) > 0
    /\ FLt(FZero, heap[ret.list[2]].relevance_score)
    /\ FLt(heap[ret.list[2]].relevance_score, heap[ret.list[1]].relevance_score)

\* the alphanumeric characters: letters and digits
AlnumChars == WordChars \ {"_"}

\* the text with every character that is neither alphanumeric nor whitespace
\* replaced by a space, by halves
RECURSIVE SubNonAlnum(_)
SubNonAlnum(s) ==
    IF Len(s) = 0 THEN ""
    ELSE IF Len(s) = 1 THEN (IF s \in AlnumChars \/ s \in SpaceChars THEN s ELSE " ")
    ELSE LET h == Len(s) \div 2
         IN  SubNonAlnum(SubSeq(s, 1, h)) \o SubNonAlnum(SubSeq(s, h + 1, Len(s)))

\* C24: tokenize returns, in the order of the text, the non-empty tokens made
\* of alphanumeric characters only: every character that is neither
\* alphanumeric nor whitespace separates tokens and is in none, case is kept,
\* and the empty text gives the empty sequence.
C24_TokensAlphanumeric ==
    call.op = "tokenize_text" =>
        /\ ret.kind = "words"
        /\ ret.list = Split(SubNonAlnum(call.query))
        /\ \A k \in DOMAIN ret.list :
                /\ ret.list[k] # ""
                /\ \A j \in 1..Len(ret.list[k]) : CharAt(ret.list[k], j) \in AlnumChars
        /\ call.query = "" => ret.list = <<>>

\* C25: the two-document similarity is within [0, 1], and is 0 whenever the
\* list of the lowercased tokens of either text that are no stop words and
\* are longer than one character is empty.
C25_SimilarityInRange ==
    call.op = "calculate_tfidf_similarity" =>
        /\ InRange(ret.val)
        /\ (\/ ContentWords(call.query) = <<>>
            \/ ContentWords(TitleSnippet(heap[results[call.index]])) = <<>>)
                => IsZero(ret.val)

\* the set of the tokens of the lowercased text
TokenSet(text) == Range(tokenize_text(Lower(text)))

\* |A \cap B| / |A \cup B|, and 0 when there are no tokens at all
Jaccard(A, B) ==
    IF A \cup B = {} THEN FZero
    ELSE FDiv(FromInt(Cardinality(A \cap B)), FromInt(Cardinality(A \cup B)))

\* the value v is the Jaccard overlap of the token sets A and B, lies in
\* [0, 1] and is 0 when either set is empty or the two are disjoint
IsJaccard(v, A, B) ==
    /\ v = Jaccard(A, B)
    /\ InRange(v)
    /\ (A = {} \/ B = {} \/ A \cap B = {}) => IsZero(v)

\* C26: when the primary similarity computation raises, the similarity
\* estimator returns the Jaccard overlap of the tokens of the two texts and
\* raises nothing; the Jaccard overlap itself raises nothing, lies in [0, 1]
\* and is 0 when either text has no tokens or the token sets are disjoint.
C26_FallbackIsJaccard ==
    call.op \in {"calculate_tfidf_similarity_except", "calculate_word_overlap"} =>
        /\ ret.kind = "float"
        /\ IsJaccard(ret.val, TokenSet(call.query),
                     TokenSet(TitleSnippet(heap[results[call.index]])))

\* the primary computation failed for texts that share two of their three
\* words, and the estimator returned 2/3
C26_Witness ==
    /\ call.op = "calculate_tfidf_similarity_except"
    /\ call.query = "category theory notes"
    /\ heap[results[call.index]].title = "Category theory"
    /\ ret.val = FDiv(FromInt(2), FromInt(3))

\* the fraction of the distinct tokens of the lowercased query that are
\* tokens of the lowercased title
TitleFraction(query, title) ==
    FDiv(FromInt(Cardinality(TokenSet(query) \cap TokenSet(title))),
         FromInt(Cardinality(TokenSet(query))))

\* C27: keyword_score is within [0, 1]; title_boost is 1 + 0.3 x (the
\* fraction of the distinct query tokens present in the title) and lies in
\* [1.0, 1.3]; for a query with no tokens keyword_score is 0 and title_boost
\* is 1.0.
C27_KeywordAndTitleRanges ==
    /\ call.op = "calculate_keyword_matching" =>
            /\ InRange(ret.val)
            /\ TokenSet(call.query) = {} => IsZero(ret.val)
    /\ call.op = "calculate_title_boost" =>
            /\ FLe(F1_0, ret.val) /\ FLe(ret.val, F1_3)
            /\ IF TokenSet(call.query) = {} THEN ret.val = F1_0
               ELSE ret.val = FAdd(F1_0, FMul(TitleFraction(call.query,
                                        heap[results[call.index]].title), F0_3))

\* a keyword score at the cap: the one query word is in the text and is a
\* math term of weight above 1.0
C27_Witness ==
    /\ call.op = "calculate_keyword_matching"
    /\ call.query = "topology"
    /\ heap[results[call.index]].title = "Topology"
    /\ ret.val = F1_0

\* 0.24, the float of 0.2 * 1.2
F0_24 == [m |-> <<7864, 11796, 1310, 1966>>, x |-> -55]

\* C28: calculate_relevance is at least 0.2, at least 0.24 when the candidate
\* has math_content_detected, and for a query with no tokens it is exactly
\* 0.2 times the math content multiplier (0.2 or 0.24), never 0.
C28_RelevanceFloor ==
    call.op = "calculate_relevance" =>
        LET flagged == heap[results[call.index]].math_content_detected
            floor_ == IF flagged THEN F0_24 ELSE F0_2
        IN  /\ FLe(floor_, ret.val)
            /\ floor_ = FMul(F0_2, IF flagged THEN F1_2 ELSE F1_0)
            /\ TokenSet(call.query) = {} => ret.val = floor_

\* a query with no tokens scored against a candidate with math content
C28_Witness ==
    /\ call.op = "calculate_relevance"
    /\ call.query = ""
    /\ heap[results[call.index]].math_content_detected
    /\ heap[results[call.index]].title = "Topology"
    /\ ret.val = F0_24

\* the position of the reference x in the list
IndexOf(list, x) == CHOOSE i \in DOMAIN list : list[i] = x

\* C29: rank_results is idempotent and stable: ranking the list it returned
\* gives the same order again, and candidates whose four sort keys (score,
\* math flag, source boost, timestamp) are all equal keep their relative
\* input order in the output.
C29_RankIdempotentStable ==
    call.op = "rank_results" =>
        /\ rank_results(heap, ret.list) = ret.list
        /\ \A p, q \in DOMAIN ret.list :
                (p < q /\ rank_key(heap[ret.list[p]]) = rank_key(heap[ret.list[q]]))
                    => IndexOf(results, ret.list[p]) < IndexOf(results, ret.list[q])

\* a list of three was reordered and two of its candidates have equal keys
C29_Witness ==
    /\ call.op = "rank_results" /\ Len(ret.list) = 3 /\ ret.list # results
    /\ \E p, q \in DOMAIN ret.list :
            /\ p < q
            /\ rank_key(heap[ret.list[p]]) = rank_key(heap[ret.list[q]])

\* the keys of the math-term weight table that are one word
SingleWordKeys ==
    {e[1] : e \in {w \in Range(math_terms_weights) : ~Contains(w[1], " ")}}

\* the table keys of several words that the lowercased texts both contain
SharedPhrases(query, text) ==
    {e[1] : e \in {w \in Range(math_terms_weights) :
                      /\ Contains(w[1], " ")
                      /\ Contains(Lower(query), w[1])
                      /\ Contains(Lower(text), w[1])}}

\* C30: in keyword_score only single-word keys of the math-term weight table
\* multiply the overlap ratio: the score is min(overlap_ratio x the weights
\* of the one-word keys in the intersection, 1.0), so a table term of
\* several words never contributes its weight, even when the query and the
\* candidate text both contain the phrase.
C30_PhrasesNeverContribute ==
    (call.op = "calculate_keyword_matching" /\ TokenSet(call.query) # {}) =>
        LET text  == TitleSnippet(heap[results[call.index]])
            inter == TokenSet(call.query) \cap TokenSet(text)
            ratio == FDiv(FromInt(Cardinality(inter)),
                          FromInt(Cardinality(TokenSet(call.query))))
        IN  /\ ret.val \in keyword_scores(ratio, inter \cap SingleWordKeys)
            /\ inter \cap SingleWordKeys = {} => ret.val = ratio

\* the query and the title both contain 'category theory' and the score is
\* the plain overlap ratio 2/3
C30_Witness ==
    /\ call.op = "calculate_keyword_matching"
    /\ call.query = "category theory notes"
    /\ "category theory" \in SharedPhrases(call.query,
                                 TitleSnippet(heap[results[call.index]]))
    /\ ret.val = FDiv(FromInt(2), FromInt(3))

\* C12: no operation modifies the calculator's static tables (stop_words,
\* math_terms_weights, academic_sources), and every caller that makes the
\* same call on the same input is returned the same result, whichever
\* process it runs in and however the calls interleave.
C12_SameResultForEveryCaller ==
    /\ tables = InitTables
    /\ \A p1, p2 \in Processes :
            \A e1 \in callers[p1], e2 \in callers[p2] :
                (e1.op = e2.op /\ e1.query = e2.query /\ e1.index = e2.index)
                    => e1.out = e2.out
====
